---------------------------- MODULE Spec2Model ----------------------------
(***************************************************************************)
(* Model of sdk/nodejs/runtime/closure/parseFunction.ts: the function      *)
(* parser and free-variable analyzer of the closure serializer.            *)
(*                                                                         *)
(* A JavaScript string is a sequence of tokens (each token a TLA+ string:  *)
(* a word, a punctuator, a single blank " ", a comment bracket).  The      *)
(* string operations of the source (startsWith, indexOf, substr, trimLeft) *)
(* act on that sequence, token by token.                                   *)
(*                                                                         *)
(* A second specification, PluginSpec, models NewPlugin and Plugin.Close   *)
(* of pkg/resource/plugin.go; each specification leaves the variables of   *)
(* the other at rest.                                                      *)
(***************************************************************************)
EXTENDS Integers, Sequences, FiniteSets, TLC

VARIABLES
    funcString,         \* the argument of parseFunction
    global,             \* the own property names of node's `global` object
    pc,                 \* position inside parseFunction
    error,              \* first component of the returned pair
    functionCode,       \* ParsedFunctionCode returned by parseFunctionCode
    file,               \* the ts.SourceFile (<<>> while there is none)
    required,           \* walker: the current function's required map
    optional,           \* walker: the current function's optional map
    scopes,             \* walker: stack of block scopes
    functionVars,       \* walker: the current function's var-style names
    stack,              \* walker: pending visits and function exits
    capturedVariables,  \* result of computeCapturedVariableNames
    usesNonLexicalThis, \* result.usesNonLexicalThis
    result,             \* second component of the returned pair (<<>> = undefined)
    run,                \* how many times the caller has called parseFunction
    prev                \* the previous call's input and outcome

\* the plugin host (pkg/resource/plugin.go)
VARIABLES
    hostPc,             \* position inside NewPlugin, and after it
    proc,               \* the plugin child process
    procout,            \* what the child has written to stdout and nobody has read
    port,               \* NewPlugin's `port`
    tracers,            \* the goroutines that copy the child's output to ctx.Diag
    diag,               \* the lines the goroutines have given to ctx.Diag
    conn,               \* the gRPC client connection
    returned            \* what NewPlugin returned (<<>> while it has not)

hostVars == <<hostPc, proc, procout, port, tracers, diag, conn, returned>>

vars == <<funcString, global, pc, error, functionCode, file, required, optional,
          scopes, functionVars, stack, capturedVariables, usesNonLexicalThis,
          result, run, prev, hostVars>>

-----------------------------------------------------------------------------
(* JavaScript string operations, on token sequences.                       *)

\* s.startsWith(p)
StartsWith(s, p) ==
    Len(s) >= Len(p) /\ SubSeq(s, 1, Len(p)) = p

\* s.indexOf(tok): 0-based index of the first occurrence, -1 when absent
IndexOf(s, tok) ==
    IF \E i \in 1..Len(s) : s[i] = tok
    THEN (CHOOSE i \in 1..Len(s) : s[i] = tok /\ \A j \in 1..(i-1) : s[j] # tok) - 1
    ELSE -1

\* s.substr(from) with a 0-based start
Substr(s, from) == SubSeq(s, from + 1, Len(s))

\* s.substr(0, n) / s.substring(from, to) with 0-based bounds, `to` exclusive
Substring(s, from, to) == SubSeq(s, from + 1, to)

RECURSIVE TrimLeft(_)
\* s.trimLeft()
TrimLeft(s) ==
    IF s # <<>> /\ Head(s) = " " THEN TrimLeft(Tail(s)) ELSE s

RECURSIVE TrimRight(_)
TrimRight(s) ==
    IF s # <<>> /\ s[Len(s)] = " " THEN TrimRight(SubSeq(s, 1, Len(s) - 1)) ELSE s

\* s.trim()
Trim(s) == TrimRight(TrimLeft(s))

-----------------------------------------------------------------------------
(* The words of the modelled JavaScript fragment.                          *)

\* reserved words: member names, but neither identifiers nor function names
ReservedWords ==
    {"function", "return", "var", "let", "const", "typeof", "void", "this",
     "super", "yield", "try", "catch", "class", "extends", "new"}

\* identifiers
IdentTokens ==
    {"a", "b", "c", "e", "f", "g", "p", "w", "x", "y", "z", "obj", "bar", "foo",
     "gen", "outer", "inner", "maybe", "log", "console", "require", "module",
     "get", "set", "target", "constructor", "B", "C", "__awaiter", "__computed"}

-----------------------------------------------------------------------------
(* closure.isLegalMemberName / closure.isLegalFunctionName (createClosure) *)

\* a member name is one word
isLegalMemberName(n) ==
    Len(n) = 1 /\ n[1] \in IdentTokens \cup ReservedWords

\* a function name is one word that is a legal identifier
isLegalFunctionName(n) ==
    isLegalMemberName(n) /\ n[1] \in IdentTokens

-----------------------------------------------------------------------------
(* parseFunctionCode and makeFunctionDeclaration                            *)

NoName == <<>>      \* undefined (an absent string or object)

FormNotUnderstood == "the function form was not understood."
NativeCode == "it was a native code function."
ClassNotParsed == "the class could not be parsed"
ClassNotUnderstood == "the class form was not understood"
ArrowCapturedThis == "arrow function captured 'this'. Assign 'this' to another name outside function and capture that."

\* [error, ParsedFunctionCode]; code = <<>> stands for undefined
Failure(msg) == [error |-> msg, code |-> <<>>]

Success(withoutName, withName, declName, isArrow) ==
    [error |-> "",
     code  |-> <<[funcExprWithoutName     |-> withoutName,
                  funcExprWithName        |-> withName,
                  functionDeclarationName |-> declName,
                  isArrowFunction         |-> isArrow]>>]

\* makeFunctionDeclaration whose funcExprWithoutName starts one place after
\* the "(" of the parameter list
makeFunctionDeclaration_WithoutOpenParen(v0, isFunctionDeclaration) ==
    LET v1     == TrimLeft(v0)
        star   == StartsWith(v1, <<"*">>)
        prefix == IF star THEN <<"function", "*", " ">> ELSE <<"function", " ">>
        v      == IF star THEN TrimLeft(Substr(v1, 1)) ELSE v1
        openParenIndex == IndexOf(v, "(")
        nameChunk == Substring(v, 0, openParenIndex)
        funcName == IF isLegalMemberName(nameChunk)
                    THEN IF isLegalFunctionName(nameChunk)
                         THEN nameChunk
                         ELSE <<"/*">> \o nameChunk \o <<"*/">>
                    ELSE <<>>
        commentedName == IF isLegalMemberName(nameChunk)
                         THEN <<"/*">> \o nameChunk \o <<"*/">>
                         ELSE <<>>
        rest == TrimLeft(Substr(v, openParenIndex))
    IN  IF openParenIndex < 0 THEN Failure(FormNotUnderstood)
        ELSE IF openParenIndex = 0
        THEN Success(prefix \o v, <<prefix \o <<"__computed">> \o v>>, NoName, FALSE)
        ELSE Success(prefix \o commentedName \o TrimLeft(Substr(v, openParenIndex + 1)),
                     <<prefix \o funcName \o rest>>,
                     IF isFunctionDeclaration THEN <<nameChunk>> ELSE NoName,
                     FALSE)

\* makeFunctionDeclaration that leaves the name uncommented in
\* funcExprWithoutName
makeFunctionDeclaration_NameKept(v0, isFunctionDeclaration) ==
    LET v1     == TrimLeft(v0)
        star   == StartsWith(v1, <<"*">>)
        prefix == IF star THEN <<"function", "*", " ">> ELSE <<"function", " ">>
        v      == IF star THEN TrimLeft(Substr(v1, 1)) ELSE v1
        openParenIndex == IndexOf(v, "(")
        nameChunk == Substring(v, 0, openParenIndex)
        funcName == IF isLegalMemberName(nameChunk)
                    THEN IF isLegalFunctionName(nameChunk)
                         THEN nameChunk
                         ELSE <<"/*">> \o nameChunk \o <<"*/">>
                    ELSE <<>>
        rest == TrimLeft(Substr(v, openParenIndex))
    IN  IF openParenIndex < 0 THEN Failure(FormNotUnderstood)
        ELSE IF openParenIndex = 0
        THEN Success(prefix \o v, <<prefix \o <<"__computed">> \o v>>, NoName, FALSE)
        ELSE Success(prefix \o funcName \o rest,
                     <<prefix \o funcName \o rest>>,
                     IF isFunctionDeclaration THEN <<nameChunk>> ELSE NoName,
                     FALSE)

makeFunctionDeclaration(v0, isFunctionDeclaration) ==
    LET v1     == TrimLeft(v0)
        star   == StartsWith(v1, <<"*">>)
        prefix == IF star THEN <<"function", "*", " ">> ELSE <<"function", " ">>
        v      == IF star THEN TrimLeft(Substr(v1, 1)) ELSE v1
        openParenIndex == IndexOf(v, "(")
        nameChunk == Substring(v, 0, openParenIndex)
        funcName == IF isLegalMemberName(nameChunk)
                    THEN IF isLegalFunctionName(nameChunk)
                         THEN nameChunk
                         ELSE <<"/*">> \o nameChunk \o <<"*/">>
                    ELSE <<>>
        commentedName == IF isLegalMemberName(nameChunk)
                         THEN <<"/*">> \o nameChunk \o <<"*/">>
                         ELSE <<>>
        rest == TrimLeft(Substr(v, openParenIndex))
    IN  IF openParenIndex < 0 THEN Failure(FormNotUnderstood)
        ELSE IF openParenIndex = 0
        THEN Success(prefix \o v, <<prefix \o <<"__computed">> \o v>>, NoName, FALSE)
        ELSE Success(prefix \o commentedName \o rest,
                     <<prefix \o funcName \o rest>>,
                     IF isFunctionDeclaration THEN <<nameChunk>> ELSE NoName,
                     FALSE)

-----------------------------------------------------------------------------
(* The TypeScript syntax tree.  Every node is a record of one shape:       *)
(*   kind, text, flags, pos, end and four child slots, each a sequence:    *)
(*   name (0 or 1 node), params, kids, init (0 or 1 node).                 *)
(* pos is the node's full start (the end of the token before it) and end   *)
(* the end of its last token, both 0-based offsets into the parsed string. *)

Node(kind, text, flags, name, params, kids, init, pos, end) ==
    [kind |-> kind, text |-> text, flags |-> flags, name |-> name,
     params |-> params, kids |-> kids, init |-> init, pos |-> pos, end |-> end]

NoNode == Node("Missing", "", {}, <<>>, <<>>, <<>>, <<>>, 0, 0)

\* ts.forEachChild(n, cb): the children of n in the order cb sees them
ForEachChild(n) ==
    IF n.kind \in {"BindingElement", "PropertyAccessExpression"}
    THEN n.kids \o n.name \o n.init
    ELSE n.name \o n.params \o n.kids \o n.init

\* ts.isFunctionLike
isFunctionLike(n) ==
    n.kind \in {"FunctionExpression", "FunctionDeclaration", "ArrowFunction",
                "MethodDeclaration", "Constructor"}

-----------------------------------------------------------------------------
(* The scanner: blanks and comments are trivia.                            *)

\* whether the scanner reaches s[i] inside a comment
InComment(s, i) ==
    \E j \in 1..(i - 1) : s[j] = "/*" /\ \A k \in (j + 1)..(i - 1) : s[k] # "*/"

\* the places of s that hold a token: neither blank nor part of a comment
Significant(s) ==
    LET isToken(i) == ~InComment(s, i) /\ s[i] \notin {" ", "/*"}
    IN  SelectSeq([i \in 1..Len(s) |-> i], isToken)

\* the token at each significant place; its full start is the end of the token
\* before it
TokensAt(s, places) ==
    [k \in 1..Len(places) |->
        [tok |-> s[places[k]],
         pos |-> IF k = 1 THEN 0 ELSE places[k - 1],
         end |-> places[k]]]

EndOfFile(s) == [tok |-> "<EOF>", pos |-> Len(s), end |-> Len(s)]

\* the tokens of s, followed by end-of-file tokens
Scanned(s, toks) ==
    [toks  |-> toks \o <<EndOfFile(s), EndOfFile(s), EndOfFile(s), EndOfFile(s)>>,
     open  |-> InComment(s, Len(s) + 1),
     count |-> Len(toks)]

Scan(s) == Scanned(s, TokensAt(s, Significant(s)))

-----------------------------------------------------------------------------
(* The parser (ts.createSourceFile) for the modelled fragment: recursive   *)
(* descent over the scanned tokens.  A parse result is [ok, node, nodes,   *)
(* next]; ok = FALSE stands for a non-empty parseDiagnostics.              *)

\* The token sequence T ends with end-of-file tokens, as many as the parser looks
\* ahead, so that T[i] exists wherever the parser looks.
Tok(T, i) == T[i].tok
PosOf(T, i) == T[i].pos
EndOf(T, i) == T[i].end

Fail == [ok |-> FALSE, node |-> NoNode, nodes |-> <<>>, next |-> 0]
Ok(node, next) == [ok |-> TRUE, node |-> node, nodes |-> <<>>, next |-> next]
OkList(nodes, next) == [ok |-> TRUE, node |-> NoNode, nodes |-> nodes, next |-> next]

IsIdent(t) == t \in IdentTokens
IsWord(t) == t \in IdentTokens \cup ReservedWords

Ident(T, i) ==
    Node("Identifier", Tok(T, i), {}, <<>>, <<>>, <<>>, <<>>, PosOf(T, i), EndOf(T, i))

RECURSIVE MatchParen(_, _, _)
\* the index of the ")" that closes the "(" before i at nesting depth d; 0 if none
MatchParen(T, i, d) ==
    IF T[i].tok = "<EOF>" THEN 0
    ELSE IF T[i].tok = "(" THEN MatchParen(T, i + 1, d + 1)
    ELSE IF T[i].tok = ")"
         THEN IF d = 0 THEN i ELSE MatchParen(T, i + 1, d - 1)
    ELSE MatchParen(T, i + 1, d)

IsArrowStart(T, i) ==
    \/ IsIdent(Tok(T, i)) /\ Tok(T, i + 1) = "=>"
    \/ /\ Tok(T, i) = "("
       /\ MatchParen(T, i + 1, 0) # 0
       /\ Tok(T, MatchParen(T, i + 1, 0) + 1) = "=>"

StartsExpression(t) ==
    t \notin {";", "}", ")", ",", "<EOF>", "]"}

RECURSIVE Parse(_, _, _, _)

ParseExpr(T, i) == Parse(T, i, "Expr", <<>>)

ParseUnary(T, i) == Parse(T, i, "Unary", <<>>)

ParsePostfix(T, r) == Parse(T, 0, "Postfix", <<r>>)

\* the arguments of a call, from the token after "(" to the one after ")"
ParseArgs(T, i, acc) == Parse(T, i, "Args", <<acc>>)

ParsePrimary(T, i) == Parse(T, i, "Primary", <<>>)

ParseArrow(T, i) == Parse(T, i, "Arrow", <<>>)

\* a parameter list, from the token after "(" to the one after ")"
ParseParams(T, i, acc) == Parse(T, i, "Params", <<acc>>)

ParseParam(T, i) == Parse(T, i, "Param", <<>>)

ParseBinding(T, i) == Parse(T, i, "Binding", <<>>)

\* the elements of an object pattern, from the token after "{" to the one after "}"
ParseBindingElements(T, i, acc) == Parse(T, i, "BindingElements", <<acc>>)

ParseBindingElement(T, i) == Parse(T, i, "BindingElement", <<>>)

\* function [*] [name] ( params ) { body }
ParseFunction(T, i, kind) == Parse(T, i, "Function", <<kind>>)

\* ( params ) { body }, at the "("
ParseFunctionTail(T, i, kind, name, flags, pos) == Parse(T, i, "FunctionTail", <<kind, name, flags, pos>>)

ParseBlock(T, i) == Parse(T, i, "Block", <<>>)

\* statements up to (not including) the closing "}" or the end of the file
ParseStmts(T, i, acc) == Parse(T, i, "Stmts", <<acc>>)

\* the declarations of a var/let/const list
ParseDeclarations(T, i, acc) == Parse(T, i, "Declarations", <<acc>>)

ParseStmt(T, i) == Parse(T, i, "Stmt", <<>>)

ParseObjectLiteral(T, i) == Parse(T, i, "ObjectLiteral", <<>>)

\* the properties of an object literal, from the token after "{" to the one after "}"
ParseProperties(T, i, acc) == Parse(T, i, "Properties", <<acc>>)

\* name: value | [expr]: value | name(params) { } | [expr](params) { }
ParseProperty(T, i) == Parse(T, i, "Property", <<>>)

\* class Name [extends Base] { members }; the heritage clauses are held in `params`
ParseClass(T, i) == Parse(T, i, "Class", <<>>)

\* the members of a class, from the token after "{" to the one after "}"
ParseMembers(T, i, acc) == Parse(T, i, "Members", <<acc>>)

\* the parser proper: Parse(T, i, nt, more) parses the nonterminal nt at token i,
\* `more` holding what else the nonterminal's function takes
Parse(T, i, nt, more) ==
    CASE nt = "Expr" ->
         IF Tok(T, i) = "yield"
         THEN IF StartsExpression(Tok(T, i + 1))
              THEN LET r == ParseExpr(T, i + 1)
                   IN  IF ~r.ok THEN Fail
                       ELSE Ok(Node("YieldExpression", "", {}, <<>>, <<>>, <<r.node>>, <<>>,
                                    PosOf(T, i), r.node.end), r.next)
              ELSE Ok(Node("YieldExpression", "", {}, <<>>, <<>>, <<>>, <<>>,
                           PosOf(T, i), EndOf(T, i)), i + 1)
         ELSE IF IsArrowStart(T, i) THEN ParseArrow(T, i)
         ELSE LET l == ParseUnary(T, i)
              IN  IF ~l.ok THEN Fail
                  ELSE IF Tok(T, l.next) \in {"+", "="}
                  THEN LET r == ParseExpr(T, l.next + 1)
                       IN  IF ~r.ok THEN Fail
                           ELSE Ok(Node("BinaryExpression", Tok(T, l.next), {}, <<>>, <<>>,
                                        <<l.node, r.node>>, <<>>, l.node.pos, r.node.end),
                                   r.next)
                  ELSE l
      [] nt = "Unary" ->
         IF Tok(T, i) \in {"typeof", "void"}
         THEN LET r == ParseUnary(T, i + 1)
              IN  IF ~r.ok THEN Fail
                  ELSE Ok(Node(IF Tok(T, i) = "typeof" THEN "TypeOfExpression"
                                                       ELSE "VoidExpression",
                               "", {}, <<>>, <<>>, <<r.node>>, <<>>, PosOf(T, i), r.node.end),
                          r.next)
         ELSE ParsePostfix(T, ParsePrimary(T, i))
      [] nt = "Postfix" ->
         LET r == more[1]
         IN
         IF ~r.ok THEN Fail
         ELSE IF Tok(T, r.next) = "." /\ IsWord(Tok(T, r.next + 1))
         THEN ParsePostfix(T,
                 Ok(Node("PropertyAccessExpression", "", {}, <<Ident(T, r.next + 1)>>, <<>>,
                         <<r.node>>, <<>>, r.node.pos, EndOf(T, r.next + 1)),
                    r.next + 2))
         ELSE IF Tok(T, r.next) = "("
         THEN LET a == ParseArgs(T, r.next + 1, <<>>)
              IN  IF ~a.ok THEN Fail
                  ELSE ParsePostfix(T,
                         Ok(Node("CallExpression", "", {}, <<>>, <<>>, <<r.node>> \o a.nodes,
                                 <<>>, r.node.pos, EndOf(T, a.next - 1)),
                            a.next))
         ELSE r
      [] nt = "Args" ->
         LET acc == more[1]
         IN
         IF Tok(T, i) = ")" THEN OkList(acc, i + 1)
         ELSE LET r == ParseExpr(T, i)
              IN  IF ~r.ok THEN Fail
                  ELSE IF Tok(T, r.next) = "," THEN ParseArgs(T, r.next + 1, Append(acc, r.node))
                  ELSE IF Tok(T, r.next) = ")" THEN OkList(Append(acc, r.node), r.next + 1)
                  ELSE Fail
      [] nt = "Primary" ->
         LET t == Tok(T, i)
             leaf(kind) == Ok(Node(kind, t, {}, <<>>, <<>>, <<>>, <<>>, PosOf(T, i), EndOf(T, i)),
                              i + 1)
         IN  CASE t = "this" -> leaf("ThisKeyword")
               [] t = "super" -> leaf("SuperKeyword")
               [] t = "0" -> leaf("NumericLiteral")
               [] IsIdent(t) -> leaf("Identifier")
               [] t = "function" -> ParseFunction(T, i, "FunctionExpression")
               [] t = "{" -> ParseObjectLiteral(T, i)
               [] t = "new" ->
                     IF Tok(T, i + 1) = "." /\ Tok(T, i + 2) = "target"
                     THEN Ok(Node("MetaProperty", "new", {}, <<Ident(T, i + 2)>>, <<>>, <<>>, <<>>,
                                  PosOf(T, i), EndOf(T, i + 2)), i + 3)
                     ELSE Fail
               [] t = "(" ->
                     LET r == ParseExpr(T, i + 1)
                     IN  IF r.ok /\ Tok(T, r.next) = ")"
                         THEN Ok(Node("ParenthesizedExpression", "", {}, <<>>, <<>>, <<r.node>>,
                                      <<>>, PosOf(T, i), EndOf(T, r.next)), r.next + 1)
                         ELSE Fail
               [] OTHER -> Fail
      [] nt = "Arrow" ->
         LET ps == IF Tok(T, i) = "("
                   THEN ParseParams(T, i + 1, <<>>)
                   ELSE OkList(<<Node("Parameter", "", {}, <<Ident(T, i)>>, <<>>, <<>>, <<>>,
                                      PosOf(T, i), EndOf(T, i))>>, i + 1)
         IN  IF ~ps.ok \/ Tok(T, ps.next) # "=>" THEN Fail
             ELSE LET b == IF Tok(T, ps.next + 1) = "{"
                           THEN ParseBlock(T, ps.next + 1)
                           ELSE ParseExpr(T, ps.next + 1)
                  IN  IF ~b.ok THEN Fail
                      ELSE Ok(Node("ArrowFunction", "", {}, <<>>, ps.nodes, <<b.node>>, <<>>,
                                   PosOf(T, i), b.node.end), b.next)
      [] nt = "Params" ->
         LET acc == more[1]
         IN
         IF Tok(T, i) = ")" THEN OkList(acc, i + 1)
         ELSE LET r == ParseParam(T, i)
              IN  IF ~r.ok THEN Fail
                  ELSE IF Tok(T, r.next) = "," THEN ParseParams(T, r.next + 1, Append(acc, r.node))
                  ELSE IF Tok(T, r.next) = ")" THEN OkList(Append(acc, r.node), r.next + 1)
                  ELSE Fail
      [] nt = "Param" ->
         LET n == ParseBinding(T, i)
         IN  IF ~n.ok THEN Fail
             ELSE IF Tok(T, n.next) = "="
             THEN LET d == ParseExpr(T, n.next + 1)
                  IN  IF ~d.ok THEN Fail
                      ELSE Ok(Node("Parameter", "", {}, <<n.node>>, <<>>, <<>>, <<d.node>>,
                                   n.node.pos, d.node.end), d.next)
             ELSE Ok(Node("Parameter", "", {}, <<n.node>>, <<>>, <<>>, <<>>,
                          n.node.pos, n.node.end), n.next)
      [] nt = "Binding" ->
         IF IsIdent(Tok(T, i)) THEN Ok(Ident(T, i), i + 1)
         ELSE IF Tok(T, i) = "{"
         THEN LET es == ParseBindingElements(T, i + 1, <<>>)
              IN  IF ~es.ok THEN Fail
                  ELSE Ok(Node("ObjectBindingPattern", "", {}, <<>>, <<>>, es.nodes, <<>>,
                               PosOf(T, i), EndOf(T, es.next - 1)), es.next)
         ELSE Fail
      [] nt = "BindingElements" ->
         LET acc == more[1]
         IN
         IF Tok(T, i) = "}" THEN OkList(acc, i + 1)
         ELSE LET r == ParseBindingElement(T, i)
              IN  IF ~r.ok THEN Fail
                  ELSE IF Tok(T, r.next) = ","
                       THEN ParseBindingElements(T, r.next + 1, Append(acc, r.node))
                  ELSE IF Tok(T, r.next) = "}" THEN OkList(Append(acc, r.node), r.next + 1)
                  ELSE Fail
      [] nt = "BindingElement" ->
         LET hasProp == IsWord(Tok(T, i)) /\ Tok(T, i + 1) = ":"
             n == IF hasProp THEN ParseBinding(T, i + 2) ELSE ParseBinding(T, i)
             prop == IF hasProp THEN <<Ident(T, i)>> ELSE <<>>
         IN  IF ~n.ok THEN Fail
             ELSE IF Tok(T, n.next) = "="
             THEN LET d == ParseExpr(T, n.next + 1)
                  IN  IF ~d.ok THEN Fail
                      ELSE Ok(Node("BindingElement", "", {}, <<n.node>>, <<>>, prop, <<d.node>>,
                                   PosOf(T, i), d.node.end), d.next)
             ELSE Ok(Node("BindingElement", "", {}, <<n.node>>, <<>>, prop, <<>>,
                          PosOf(T, i), n.node.end), n.next)
      [] nt = "Function" ->
         LET kind == more[1]
         IN
         LET star == Tok(T, i + 1) = "*"
             j    == IF star THEN i + 2 ELSE i + 1
             named == IsIdent(Tok(T, j))
             k    == IF named THEN j + 1 ELSE j
         IN  IF kind = "FunctionDeclaration" /\ ~named THEN Fail
             ELSE ParseFunctionTail(T, k, kind, IF named THEN <<Ident(T, j)>> ELSE <<>>,
                                    IF star THEN {"asterisk"} ELSE {}, PosOf(T, i))
      [] nt = "FunctionTail" ->
         LET kind == more[1]
             name == more[2]
             flags == more[3]
             pos == more[4]
         IN
         IF Tok(T, i) # "(" THEN Fail
         ELSE LET ps == ParseParams(T, i + 1, <<>>)
              IN  IF ~ps.ok THEN Fail
                  ELSE LET b == ParseBlock(T, ps.next)
                       IN  IF ~b.ok THEN Fail
                           ELSE Ok(Node(kind, "", flags, name, ps.nodes, <<b.node>>, <<>>,
                                        pos, b.node.end), b.next)
      [] nt = "Block" ->
         IF Tok(T, i) # "{" THEN Fail
         ELSE LET ss == ParseStmts(T, i + 1, <<>>)
              IN  IF ~ss.ok \/ Tok(T, ss.next) # "}" THEN Fail
                  ELSE Ok(Node("Block", "", {}, <<>>, <<>>, ss.nodes, <<>>,
                               PosOf(T, i), EndOf(T, ss.next)), ss.next + 1)
      [] nt = "Stmts" ->
         LET acc == more[1]
         IN
         IF Tok(T, i) \in {"}", "<EOF>"} THEN OkList(acc, i)
         ELSE LET r == ParseStmt(T, i)
              IN  IF ~r.ok THEN Fail ELSE ParseStmts(T, r.next, Append(acc, r.node))
      [] nt = "Declarations" ->
         LET acc == more[1]
         IN
         LET n == ParseBinding(T, i)
             d == IF n.ok /\ Tok(T, n.next) = "=" THEN ParseExpr(T, n.next + 1) ELSE Fail
             hasInit == n.ok /\ Tok(T, n.next) = "="
             decl == Node("VariableDeclaration", "", {}, <<n.node>>, <<>>, <<>>,
                          IF hasInit THEN <<d.node>> ELSE <<>>,
                          n.node.pos, IF hasInit THEN d.node.end ELSE n.node.end)
             next == IF hasInit THEN d.next ELSE n.next
         IN  IF ~n.ok \/ (hasInit /\ ~d.ok) THEN Fail
             ELSE IF Tok(T, next) = "," THEN ParseDeclarations(T, next + 1, Append(acc, decl))
             ELSE OkList(Append(acc, decl), next)
      [] nt = "Stmt" ->
         LET t == Tok(T, i)
             semi(j) == IF Tok(T, j) = ";" THEN j + 1 ELSE j
         IN  CASE t = "{" -> ParseBlock(T, i)
               [] t \in {"var", "let", "const"} ->
                     LET ds == ParseDeclarations(T, i + 1, <<>>)
                         end == EndOf(T, semi(ds.next) - 1)
                         list == Node("VariableDeclarationList", "",
                                      IF t = "let" THEN {"Let"}
                                      ELSE IF t = "const" THEN {"Const"} ELSE {},
                                      <<>>, <<>>, ds.nodes, <<>>, PosOf(T, i), EndOf(T, ds.next - 1))
                     IN  IF ~ds.ok THEN Fail
                         ELSE Ok(Node("VariableStatement", "", {}, <<>>, <<>>, <<list>>, <<>>,
                                      PosOf(T, i), end), semi(ds.next))
               [] t = "return" ->
                     IF StartsExpression(Tok(T, i + 1))
                     THEN LET r == ParseExpr(T, i + 1)
                          IN  IF ~r.ok THEN Fail
                              ELSE Ok(Node("ReturnStatement", "", {}, <<>>, <<>>, <<r.node>>, <<>>,
                                           PosOf(T, i), EndOf(T, semi(r.next) - 1)), semi(r.next))
                     ELSE Ok(Node("ReturnStatement", "", {}, <<>>, <<>>, <<>>, <<>>,
                                  PosOf(T, i), EndOf(T, semi(i + 1) - 1)), semi(i + 1))
               [] t = "try" ->
                     LET b == ParseBlock(T, i + 1)
                         hasVar == b.ok /\ Tok(T, b.next + 1) = "("
                         v == IF hasVar THEN ParseBinding(T, b.next + 2) ELSE Fail
                         cb == IF hasVar
                               THEN IF v.ok /\ Tok(T, v.next) = ")"
                                    THEN ParseBlock(T, v.next + 1) ELSE Fail
                               ELSE ParseBlock(T, b.next + 1)
                     IN  IF ~b.ok \/ Tok(T, b.next) # "catch" \/ ~cb.ok THEN Fail
                         ELSE Ok(Node("TryStatement", "", {}, <<>>, <<>>,
                                      <<b.node,
                                        Node("CatchClause", "", {},
                                             IF hasVar
                                             THEN <<Node("VariableDeclaration", "", {}, <<v.node>>,
                                                         <<>>, <<>>, <<>>, v.node.pos, v.node.end)>>
                                             ELSE <<>>,
                                             <<>>, <<cb.node>>, <<>>,
                                             PosOf(T, b.next), cb.node.end)>>,
                                      <<>>, PosOf(T, i), cb.node.end), cb.next)
               [] t = "function" -> ParseFunction(T, i, "FunctionDeclaration")
               [] t = "class" -> ParseClass(T, i)
               [] OTHER ->
                     LET r == ParseExpr(T, i)
                     IN  IF ~r.ok THEN Fail
                         ELSE Ok(Node("ExpressionStatement", "", {}, <<>>, <<>>, <<r.node>>, <<>>,
                                      r.node.pos, EndOf(T, semi(r.next) - 1)), semi(r.next))
      [] nt = "ObjectLiteral" ->
         LET ps == ParseProperties(T, i + 1, <<>>)
         IN  IF ~ps.ok THEN Fail
             ELSE Ok(Node("ObjectLiteralExpression", "", {}, <<>>, <<>>, ps.nodes, <<>>,
                          PosOf(T, i), EndOf(T, ps.next - 1)), ps.next)
      [] nt = "Properties" ->
         LET acc == more[1]
         IN
         IF Tok(T, i) = "}" THEN OkList(acc, i + 1)
         ELSE LET r == ParseProperty(T, i)
              IN  IF ~r.ok THEN Fail
                  ELSE IF Tok(T, r.next) = ","
                       THEN ParseProperties(T, r.next + 1, Append(acc, r.node))
                  ELSE IF Tok(T, r.next) = "}" THEN OkList(Append(acc, r.node), r.next + 1)
                  ELSE Fail
      [] nt = "Property" ->
         LET computed == Tok(T, i) = "["
             ce == IF computed THEN ParseExpr(T, i + 1) ELSE Fail
             nameOk == IF computed THEN ce.ok /\ Tok(T, ce.next) = "]" ELSE IsWord(Tok(T, i))
             name == IF computed
                     THEN Node("ComputedPropertyName", "", {}, <<>>, <<>>, <<ce.node>>, <<>>,
                               PosOf(T, i), EndOf(T, ce.next))
                     ELSE Ident(T, i)
             j == IF computed THEN ce.next + 1 ELSE i + 1
         IN  IF ~nameOk THEN Fail
             ELSE IF Tok(T, j) = ":"
             THEN LET v == ParseExpr(T, j + 1)
                  IN  IF ~v.ok THEN Fail
                      ELSE Ok(Node("PropertyAssignment", "", {}, <<name>>, <<>>, <<>>, <<v.node>>,
                                   PosOf(T, i), v.node.end), v.next)
             ELSE ParseFunctionTail(T, j, "MethodDeclaration", <<name>>, {}, PosOf(T, i))
      [] nt = "Class" ->
         LET named == IsIdent(Tok(T, i + 1))
             ext == Tok(T, i + 2) = "extends" /\ IsIdent(Tok(T, i + 3))
             heritage == IF ext
                         THEN <<Node("HeritageClause", "extends", {}, <<>>, <<>>,
                                     <<Ident(T, i + 3)>>, <<>>, PosOf(T, i + 2), EndOf(T, i + 3))>>
                         ELSE <<>>
             j == IF ext THEN i + 4 ELSE i + 2
             ms == IF Tok(T, j) = "{" THEN ParseMembers(T, j + 1, <<>>) ELSE Fail
         IN  IF ~named \/ ~ms.ok THEN Fail
             ELSE Ok(Node("ClassDeclaration", "", {}, <<Ident(T, i + 1)>>, heritage, ms.nodes,
                          <<>>, PosOf(T, i), EndOf(T, ms.next - 1)), ms.next)
      [] nt = "Members" ->
         LET acc == more[1]
         IN
         IF Tok(T, i) = "}" THEN OkList(acc, i + 1)
         ELSE IF ~IsWord(Tok(T, i)) THEN Fail
         ELSE LET r == IF Tok(T, i) = "constructor"
                       THEN ParseFunctionTail(T, i + 1, "Constructor", <<>>, {}, PosOf(T, i))
                       ELSE ParseFunctionTail(T, i + 1, "MethodDeclaration", <<Ident(T, i)>>, {},
                                              PosOf(T, i))
              IN  IF ~r.ok THEN Fail ELSE ParseMembers(T, r.next, Append(acc, r.node))

\* ts.createSourceFile("", text, ...): the tree, and whether parseDiagnostics is
\* non-empty
SourceFile(text, ok, statements) ==
    [diagnostics |-> ~ok,
     file |-> IF ok
              THEN Node("SourceFile", "", {}, <<>>, <<>>, statements, <<>>, 0, Len(text))
              ELSE NoNode]

ParseStatements(text, sc, ss) ==
    SourceFile(text, ~sc.open /\ ss.ok /\ ss.next = sc.count + 1, ss.nodes)

ParseTokens(text, sc) == ParseStatements(text, sc, ParseStmts(sc.toks, 1, <<>>))

ParseSourceFile(text) == ParseTokens(text, Scan(text))

-----------------------------------------------------------------------------
(* parseFunctionCode                                                        *)

\* file.statements.find(x => ts.isClassDeclaration(x)) and members.find(...): the
\* first node of the kind in a node list, as a sequence of 0 or 1 node
FindKind(nodes, kind) ==
    IF \E i \in 1..Len(nodes) : nodes[i].kind = kind
    THEN <<nodes[CHOOSE i \in 1..Len(nodes) :
                    /\ nodes[i].kind = kind
                    /\ \A j \in 1..(i-1) : nodes[j].kind # kind]>>
    ELSE <<>>

\* the class branch without the test for an extends clause (lines 172-176)
classConstructorCode_NoSubClass(s, classDecl, constructor) ==
    IF constructor = <<>>
    THEN makeFunctionDeclaration(
             <<"constructor", "(", ")", " ", "{", " ", "}">>, FALSE)
    ELSE makeFunctionDeclaration(
             Trim(Substring(s, constructor[1].pos, constructor[1].end)), FALSE)

\* the "class " branch of parseFunctionCode
\* lines 166-181: the constructor of the class declaration, or a synthesized one
classConstructorCode(s, classDecl, constructor) ==
    IF constructor = <<>>
    THEN IF \E i \in 1..Len(classDecl.params) : classDecl.params[i].text = "extends"
         THEN makeFunctionDeclaration(
                  <<"constructor", "(", ")", " ", "{", " ", "super", "(", ")", ";",
                    " ", "}">>, FALSE)
         ELSE makeFunctionDeclaration(
                  <<"constructor", "(", ")", " ", "{", " ", "}">>, FALSE)
    ELSE makeFunctionDeclaration(
             Trim(Substring(s, constructor[1].pos, constructor[1].end)), FALSE)

\* lines 160-166: the class declaration among the statements of the file
classDeclarationCode(s, classDecl) ==
    IF classDecl = <<>> THEN Failure(ClassNotUnderstood)
    ELSE classConstructorCode(s, classDecl[1], FindKind(classDecl[1].kids, "Constructor"))

\* lines 153-158: the parsed class text
parsedClassCode(s, parsed) ==
    IF parsed.diagnostics THEN Failure(ClassNotParsed)
    ELSE classDeclarationCode(s, FindKind(parsed.file.kids, "ClassDeclaration"))

parseClassCode(s) == parsedClassCode(s, ParseSourceFile(s))

\* parseFunctionCode without the test for "[native code]"
parseFunctionCode_NoNativeCodeTest(s) ==
    LET openCurlyIndex == IndexOf(s, "{")
        signature == Substring(s, 0, openCurlyIndex)
    IN  IF StartsWith(s, <<"[Function:">>) THEN Failure(FormNotUnderstood)
        ELSE IF openCurlyIndex < 0
        THEN IF IndexOf(s, "=>") >= 0
             THEN Success(s, NoName, NoName, TRUE)
             ELSE Failure(FormNotUnderstood)
        ELSE IF IndexOf(signature, "=>") >= 0 THEN Success(s, NoName, NoName, TRUE)
        ELSE IF \/ StartsWith(s, <<"function", " ", "get", " ">>)
                \/ StartsWith(s, <<"function", " ", "set", " ">>)
        THEN makeFunctionDeclaration(Substr(s, Len(<<"function", " ", "get">>)), FALSE)
        ELSE IF StartsWith(s, <<"function">>)
        THEN makeFunctionDeclaration(Substr(s, Len(<<"function">>)), TRUE)
        ELSE IF StartsWith(s, <<"class", " ">>) THEN parseClassCode(s)
        ELSE makeFunctionDeclaration(s, FALSE)

parseFunctionCode(s) ==
    LET openCurlyIndex == IndexOf(s, "{")
        signature == Substring(s, 0, openCurlyIndex)
    IN  IF StartsWith(s, <<"[Function:">>) THEN Failure(FormNotUnderstood)
        ELSE IF IndexOf(s, "[native code]") # -1 THEN Failure(NativeCode)
        ELSE IF openCurlyIndex < 0
        THEN IF IndexOf(s, "=>") >= 0
             THEN Success(s, NoName, NoName, TRUE)
             ELSE Failure(FormNotUnderstood)
        ELSE IF IndexOf(signature, "=>") >= 0 THEN Success(s, NoName, NoName, TRUE)
        ELSE IF \/ StartsWith(s, <<"function", " ", "get", " ">>)
                \/ StartsWith(s, <<"function", " ", "set", " ">>)
        THEN makeFunctionDeclaration(Substr(s, Len(<<"function", " ", "get">>)), FALSE)
        ELSE IF StartsWith(s, <<"function">>)
        THEN makeFunctionDeclaration(Substr(s, Len(<<"function">>)), TRUE)
        ELSE IF StartsWith(s, <<"class", " ">>) THEN parseClassCode(s)
        ELSE makeFunctionDeclaration(s, FALSE)

-----------------------------------------------------------------------------
(* createSourceFile                                                         *)

createSourceFile(serializedFunction) ==
    LET funcstr == IF serializedFunction.funcExprWithName # NoName
                   THEN serializedFunction.funcExprWithName[1]
                   ELSE serializedFunction.funcExprWithoutName
        toParse == <<"(">> \o funcstr \o <<")">>
    IN  ParseSourceFile(toParse)

-----------------------------------------------------------------------------
(* isAwaiterCall, and computeUsesNonLexicalThis with its inner functions    *)

\* the arguments of a call expression
Arguments(call) == Tail(call.kids)

\* isAwaiterCall that knows no __awaiter call
isAwaiterCall_Never(node) == node.kind \in {}

isAwaiterCall(node) ==
    /\ node.kids[1].kind = "Identifier"
    /\ node.kids[1].text = "__awaiter"
    /\ Len(Arguments(node)) = 4
    /\ Arguments(node)[1].kind = "ThisKeyword"
    /\ isFunctionLike(Arguments(node)[4])

RECURSIVE thisWalk(_, _)
\* walk(node) of computeUsesNonLexicalThis: whether the walk of `node`, entered
\* with the given inTopmostFunction, sets usesNonLexicalThis
thisWalk(node, inTopmostFunction) ==
    CASE node.kind \in {"SuperKeyword", "ThisKeyword"} -> TRUE
      [] node.kind = "CallExpression" ->
            \* visitCallExpression
            \/ thisWalk(node.kids[1], inTopmostFunction)
            \/ IF isAwaiterCall(node)
               THEN LET lastFunction == Arguments(node)[4]
                    IN  \E i \in 1..Len(lastFunction.kids) :
                            thisWalk(lastFunction.kids[i], inTopmostFunction)
               ELSE \E i \in 1..Len(Arguments(node)) :
                        thisWalk(Arguments(node)[i], inTopmostFunction)
      [] node.kind \in {"MethodDeclaration", "FunctionDeclaration", "FunctionExpression"} ->
            \* visitBaseFunction
            IF inTopmostFunction THEN FALSE
            ELSE \E i \in 1..Len(node.kids) : thisWalk(node.kids[i], TRUE)
      [] OTHER ->
            \E i \in 1..Len(ForEachChild(node)) :
                thisWalk(ForEachChild(node)[i], inTopmostFunction)

computeUsesNonLexicalThis(f) ==
    \E i \in 1..Len(ForEachChild(f)) : thisWalk(ForEachChild(f)[i], FALSE)

-----------------------------------------------------------------------------
(* computeCapturedVariableNames: the capture maps.  A CapturedVariableMap   *)
(* is a function from names to lists of [name, invoked]; the empty list     *)
(* means "all properties".  A value that may be undefined is a sequence of  *)
(* 0 or 1 element.                                                          *)

nodeModuleGlobals == {"__dirname", "__filename", "exports", "module", "require"}

EmptyMap == [k \in {} |-> <<>>]
Lookup(m, k) == IF k \in DOMAIN m THEN <<m[k]>> ELSE <<>>
Put(m, k, v) == [x \in DOMAIN m \cup {k} |-> IF x = k THEN v ELSE m[x]]
Delete(m, ks) == [x \in DOMAIN m \ ks |-> m[x]]

\* isBuiltIn that knows no built-in
isBuiltIn_Never(ident) == ident \in {}

isBuiltIn(ident) ==
    ident \in global \/ ident \in nodeModuleGlobals

combineProperties(existing, current) ==
    IF existing # <<>> /\ Len(existing[1]) = 0 THEN existing[1]
    ELSE IF current = <<>> THEN <<>>
    ELSE LET combined == IF existing # <<>> THEN existing[1] ELSE <<>>
             cur == current[1]
             hit == {i \in 1..Len(combined) : combined[i].name = cur.name}
         IN  IF hit # {}
             THEN LET first == CHOOSE i \in hit : \A j \in hit : i <= j
                  IN  [combined EXCEPT ![first].invoked = @ \/ cur.invoked]
             ELSE Append(combined, cur)

RECURSIVE CombineAll(_, _)
\* the loop of mergeMaps over sourcePropInfos
CombineAll(targetPropInfos, sourcePropInfos) ==
    IF sourcePropInfos = <<>> THEN targetPropInfos
    ELSE CombineAll(<<combineProperties(targetPropInfos, <<Head(sourcePropInfos)>>)>>,
                    Tail(sourcePropInfos))

\* mergeMaps that puts the source's entry in the place of the target's
mergeMaps_Overwrite(target, source) ==
    [key \in DOMAIN target \cup DOMAIN source |->
        IF key \notin DOMAIN source THEN target[key] ELSE source[key]]

\* the target map after mergeMaps(target, source)
mergeMaps(target, source) ==
    [key \in DOMAIN target \cup DOMAIN source |->
        IF key \notin DOMAIN source THEN target[key]
        ELSE IF Len(source[key]) = 0 THEN <<>>
        ELSE CombineAll(Lookup(target, key), source[key])[1]]

\* the result without the `!required[key]` test of line 359
FilterCaptured_KeepOptional(req, opt) ==
    [required |->
        [key \in {k \in DOMAIN req : ~isBuiltIn(k)} |->
            req[key] \o (IF key \in DOMAIN opt THEN opt[key] ELSE <<>>)],
     optional |->
        [key \in {k \in DOMAIN opt : ~isBuiltIn(k)} |-> opt[key]]]

\* lines 349-367: the result built from the walked maps
FilterCaptured(req, opt) ==
    [required |->
        [key \in {k \in DOMAIN req : ~isBuiltIn(k)} |->
            req[key] \o (IF key \in DOMAIN opt THEN opt[key] ELSE <<>>)],
     optional |->
        [key \in {k \in DOMAIN opt : ~isBuiltIn(k) /\ k \notin DOMAIN req} |-> opt[key]]]

-----------------------------------------------------------------------------
(* The walk of computeCapturedVariableNames, one visit per step.  `stack`   *)
(* holds what the recursion of the source still has to do, first element    *)
(* next: nodes to walk (with their parent and grandparent, which the source *)
(* reads through node.parent), binding names to nameWalk, functions to      *)
(* enter, scopes to pop and functions to leave.                             *)

Frame(op, node, parent, gparent, flag, name, saved) ==
    [op |-> op, node |-> node, parent |-> parent, gparent |-> gparent,
     flag |-> flag, name |-> name, saved |-> saved]

\* walk(node), node.parent = parent[1], node.parent.parent = gparent[1]
WalkFrame(node, parent, gparent) == Frame("walk", node, parent, gparent, FALSE, <<>>, <<>>)
\* walk(n) for each n of nodes, all children of `parent`
WalkFrames(nodes, parent, gparent) ==
    [i \in 1..Len(nodes) |-> WalkFrame(nodes[i], parent, gparent)]
\* nameWalk(n, isVar)
NameWalkFrame(n, parent, isVar) == Frame("nameWalk", n, parent, <<>>, isVar, <<>>, <<>>)
\* visitBindingElement(node, isVar)
BindingElementFrame(node, parent, isVar) ==
    Frame("visitBindingElement", node, parent, <<>>, isVar, <<>>, <<>>)
\* visitBaseFunction(node, isArrowFunction, functionName)
EnterFrame(node, parent, isArrowFunction, functionName) ==
    Frame("visitBaseFunction", node, parent, <<>>, isArrowFunction, functionName, <<>>)
\* scopes.pop()
PopFrame == Frame("scopes.pop", NoNode, <<>>, <<>>, FALSE, <<>>, <<>>)
\* lines 546-560 of visitBaseFunction, with the context it saved on entry;
\* `scopes` is the block-scope stack visitBaseFunction was called with, which
\* the source does not save (it pushes and pops): no step reads it
ExitFrame(savedRequired, savedOptional, savedFunctionVars) ==
    Frame("exit", NoNode, <<>>, <<>>, FALSE, <<>>,
          <<[required |-> savedRequired, optional |-> savedOptional,
             functionVars |-> savedFunctionVars, scopes |-> scopes]>>)

Top == stack[1]
Walking(op) == pc = "walk" /\ stack # <<>> /\ Top.op = op
WalkingKind(kinds) == Walking("walk") /\ Top.node.kind \in kinds

\* what no step of the walk changes
ctl == <<funcString, global, pc, error, functionCode, file, capturedVariables,
         usesNonLexicalThis, result, run, prev, hostVars>>

\* the node kinds walk() dispatches on
DispatchedKinds ==
    {"Identifier", "ThisKeyword", "Block", "CallExpression", "CatchClause",
     "MethodDeclaration", "MetaProperty", "PropertyAssignment",
     "PropertyAccessExpression", "FunctionDeclaration", "FunctionExpression",
     "ArrowFunction", "VariableDeclaration"}

\* determineCapturedPropertyInfo(node) for the node of a walk frame
determineCapturedPropertyInfo(fr) ==
    IF /\ fr.parent # <<>>
       /\ fr.parent[1].kind = "PropertyAccessExpression"
       /\ fr.parent[1].kids[1] = fr.node
    THEN LET propertyAccess == fr.parent[1]
             invoked == /\ fr.gparent # <<>>
                        /\ fr.gparent[1].kind = "CallExpression"
                        /\ fr.gparent[1].kids[1] = propertyAccess
         IN  <<[name |-> propertyAccess.name[1].text, invoked |-> invoked]>>
    ELSE <<>>

\* visitIdentifier that takes the object of a property access under typeof
\* for an operand of typeof
visitIdentifier_TypeOfPropertyAccess ==
    /\ WalkingKind({"Identifier"})
    /\ LET name == Top.node.text
           capturedProperty == determineCapturedPropertyInfo(Top)
       IN  IF \E i \in 1..Len(scopes) : name \in scopes[i]
           THEN UNCHANGED <<required, optional>>
           ELSE IF \/ Top.parent # <<>> /\ Top.parent[1].kind = "TypeOfExpression"
                   \/ Top.gparent # <<>> /\ Top.gparent[1].kind = "TypeOfExpression"
           THEN /\ optional' = Put(optional, name,
                                   combineProperties(Lookup(optional, name), capturedProperty))
                /\ UNCHANGED required
           ELSE /\ required' = Put(required, name,
                                   combineProperties(Lookup(required, name), capturedProperty))
                /\ UNCHANGED optional
    /\ stack' = Tail(stack)
    /\ UNCHANGED <<ctl, scopes, functionVars>>

visitIdentifier ==
    /\ WalkingKind({"Identifier"})
    /\ LET name == Top.node.text
           capturedProperty == determineCapturedPropertyInfo(Top)
       IN  IF \E i \in 1..Len(scopes) : name \in scopes[i]
           THEN UNCHANGED <<required, optional>>
           ELSE IF Top.parent # <<>> /\ Top.parent[1].kind = "TypeOfExpression"
           THEN /\ optional' = Put(optional, name,
                                   combineProperties(Lookup(optional, name), capturedProperty))
                /\ UNCHANGED required
           ELSE /\ required' = Put(required, name,
                                   combineProperties(Lookup(required, name), capturedProperty))
                /\ UNCHANGED optional
    /\ stack' = Tail(stack)
    /\ UNCHANGED <<ctl, scopes, functionVars>>

visitThisExpression ==
    /\ WalkingKind({"ThisKeyword"})
    /\ required' = Put(required, "this",
                       combineProperties(Lookup(required, "this"),
                                         determineCapturedPropertyInfo(Top)))
    /\ stack' = Tail(stack)
    /\ UNCHANGED <<ctl, optional, scopes, functionVars>>

visitBlockStatement ==
    /\ WalkingKind({"Block"})
    /\ scopes' = Append(scopes, {})
    /\ stack' = WalkFrames(ForEachChild(Top.node), <<Top.node>>, Top.parent)
                \o <<PopFrame>> \o Tail(stack)
    /\ UNCHANGED <<ctl, required, optional, functionVars>>

\* a block or catch clause that leaves its scope on `scopes` when it is left
scopesPop_KeepScope ==
    /\ Walking("scopes.pop")
    /\ stack' = Tail(stack)
    /\ UNCHANGED <<ctl, required, optional, scopes, functionVars>>

scopesPop ==
    /\ Walking("scopes.pop")
    /\ scopes' = SubSeq(scopes, 1, Len(scopes) - 1)
    /\ stack' = Tail(stack)
    /\ UNCHANGED <<ctl, required, optional, functionVars>>

\* visitCallExpression without walk(node.expression)
visitCallExpression_NoCallee ==
    /\ WalkingKind({"CallExpression"})
    /\ stack' = (IF isAwaiterCall(Top.node)
                 THEN <<EnterFrame(Arguments(Top.node)[4], <<Top.node>>, TRUE, <<>>)>>
                 ELSE WalkFrames(Arguments(Top.node), <<Top.node>>, Top.parent))
                \o Tail(stack)
    /\ UNCHANGED <<ctl, required, optional, scopes, functionVars>>

visitCallExpression ==
    /\ WalkingKind({"CallExpression"})
    /\ stack' = <<WalkFrame(Top.node.kids[1], <<Top.node>>, Top.parent)>>
                \o (IF isAwaiterCall(Top.node)
                    THEN <<EnterFrame(Arguments(Top.node)[4], <<Top.node>>, TRUE, <<>>)>>
                    ELSE WalkFrames(Arguments(Top.node), <<Top.node>>, Top.parent))
                \o Tail(stack)
    /\ UNCHANGED <<ctl, required, optional, scopes, functionVars>>

visitCatchClause ==
    /\ WalkingKind({"CatchClause"})
    /\ scopes' = Append(scopes, {})
    /\ stack' = (IF Top.node.name # <<>>
                 THEN <<NameWalkFrame(Top.node.name[1].name[1], Top.node.name, FALSE)>>
                 ELSE <<>>)
                \o WalkFrames(Top.node.kids, <<Top.node>>, Top.parent)
                \o <<PopFrame>> \o Tail(stack)
    /\ UNCHANGED <<ctl, required, optional, functionVars>>

visitMethodDeclaration ==
    /\ WalkingKind({"MethodDeclaration"})
    /\ stack' = (IF Top.node.name[1].kind = "ComputedPropertyName"
                 THEN <<WalkFrame(Top.node.name[1], <<Top.node>>, Top.parent)>>
                 ELSE <<>>)
                \o <<EnterFrame(Top.node, Top.parent, FALSE, <<>>)>>
                \o Tail(stack)
    /\ UNCHANGED <<ctl, required, optional, scopes, functionVars>>

visitMetaProperty ==
    /\ WalkingKind({"MetaProperty"})
    /\ stack' = Tail(stack)
    /\ UNCHANGED <<ctl, required, optional, scopes, functionVars>>

visitPropertyAssignment ==
    /\ WalkingKind({"PropertyAssignment"})
    /\ stack' = (IF Top.node.name[1].kind = "ComputedPropertyName"
                 THEN <<WalkFrame(Top.node.name[1], <<Top.node>>, Top.parent)>>
                 ELSE <<>>)
                \o WalkFrames(Top.node.init, <<Top.node>>, Top.parent)
                \o Tail(stack)
    /\ UNCHANGED <<ctl, required, optional, scopes, functionVars>>

visitPropertyAccessExpression ==
    /\ WalkingKind({"PropertyAccessExpression"})
    /\ stack' = <<WalkFrame(Top.node.kids[1], <<Top.node>>, Top.parent)>> \o Tail(stack)
    /\ UNCHANGED <<ctl, required, optional, scopes, functionVars>>

\* visitBaseFunction without lines 532-536: this and arguments are not put in
\* scope inside a function that is no arrow function
EnterBaseFunction_NoThis(node, parent, isArrowFunction, functionName, enclosingVars) ==
    /\ required' = EmptyMap
    /\ optional' = EmptyMap
    /\ functionVars' = (IF functionName # <<>> THEN {functionName[1].text} ELSE {})
    /\ scopes' = Append(scopes, {})
    /\ stack' = [i \in 1..Len(node.params) |->
                    NameWalkFrame(node.params[i].name[1], <<node.params[i]>>, TRUE)]
                \o WalkFrames(node.kids, <<node>>, parent)
                \o <<ExitFrame(required, optional, enclosingVars)>>
                \o Tail(stack)
    /\ UNCHANGED ctl

\* lines 517-544 of visitBaseFunction: the new context, and what is left to do
\* inside it (the parameters, the body, then the exit)
EnterBaseFunction(node, parent, isArrowFunction, functionName, enclosingVars) ==
    /\ required' = EmptyMap
    /\ optional' = EmptyMap
    /\ functionVars' = (IF functionName # <<>> THEN {functionName[1].text} ELSE {})
                       \cup (IF ~isArrowFunction THEN {"this", "arguments"} ELSE {})
    /\ scopes' = Append(scopes, {})
    /\ stack' = [i \in 1..Len(node.params) |->
                    NameWalkFrame(node.params[i].name[1], <<node.params[i]>>, TRUE)]
                \o WalkFrames(node.kids, <<node>>, parent)
                \o <<ExitFrame(required, optional, enclosingVars)>>
                \o Tail(stack)
    /\ UNCHANGED ctl

visitFunctionDeclarationOrExpression ==
    /\ WalkingKind({"FunctionDeclaration", "FunctionExpression"})
    /\ EnterBaseFunction(Top.node, Top.parent, FALSE, Top.node.name,
                         IF Top.node.name # <<>>
                         THEN functionVars \cup {Top.node.name[1].text}
                         ELSE functionVars)

visitArrowFunction ==
    /\ WalkingKind({"ArrowFunction"})
    /\ EnterBaseFunction(Top.node, Top.parent, TRUE, <<>>, functionVars)

\* visitBaseFunction called from visitCallExpression or visitMethodDeclaration
visitBaseFunction ==
    /\ Walking("visitBaseFunction")
    /\ EnterBaseFunction(Top.node, Top.parent, Top.flag, Top.name, functionVars)

\* visitBaseFunction without lines 546-550: the function-scoped names stay in
\* the maps that are merged into the enclosing function's
exitBaseFunction_KeepFunctionVars ==
    /\ Walking("exit")
    /\ LET saved == Top.saved[1]
       IN  /\ required' = mergeMaps(saved.required, required)
           /\ optional' = mergeMaps(saved.optional, optional)
           /\ functionVars' = saved.functionVars
    /\ scopes' = SubSeq(scopes, 1, Len(scopes) - 1)
    /\ stack' = Tail(stack)
    /\ UNCHANGED ctl

\* lines 546-560 of visitBaseFunction
exitBaseFunction ==
    /\ Walking("exit")
    /\ LET saved == Top.saved[1]
       IN  /\ required' = mergeMaps(saved.required, Delete(required, functionVars))
           /\ optional' = mergeMaps(saved.optional, Delete(optional, functionVars))
           /\ functionVars' = saved.functionVars
    /\ scopes' = SubSeq(scopes, 1, Len(scopes) - 1)
    /\ stack' = Tail(stack)
    /\ UNCHANGED ctl

visitVariableDeclaration ==
    /\ WalkingKind({"VariableDeclaration"})
    /\ LET isList == Top.parent # <<>> /\ Top.parent[1].kind = "VariableDeclarationList"
           isLet == isList /\ "Let" \in Top.parent[1].flags
           isConst == isList /\ "Const" \in Top.parent[1].flags
           isVar == ~isLet /\ ~isConst
       IN  stack' = <<NameWalkFrame(Top.node.name[1], <<Top.node>>, isVar)>>
                    \o WalkFrames(Top.node.init, <<Top.node>>, Top.parent)
                    \o Tail(stack)
    /\ UNCHANGED <<ctl, required, optional, scopes, functionVars>>

\* nameWalk on an identifier: visitVariableDeclarationIdentifier
visitVariableDeclarationIdentifier ==
    /\ Walking("nameWalk")
    /\ Top.node.kind = "Identifier"
    /\ IF Top.flag
       THEN /\ functionVars' = functionVars \cup {Top.node.text}
            /\ UNCHANGED scopes
       ELSE /\ scopes' = [scopes EXCEPT ![Len(scopes)] = @ \cup {Top.node.text}]
            /\ UNCHANGED functionVars
    /\ stack' = Tail(stack)
    /\ UNCHANGED <<ctl, required, optional>>

\* nameWalk on a binding pattern
nameWalk ==
    /\ Walking("nameWalk")
    /\ Top.node.kind \in {"ObjectBindingPattern", "ArrayBindingPattern"}
    /\ stack' = [i \in 1..Len(Top.node.kids) |->
                    BindingElementFrame(Top.node.kids[i], <<Top.node>>, Top.flag)]
                \o Tail(stack)
    /\ UNCHANGED <<ctl, required, optional, scopes, functionVars>>

visitBindingElement ==
    /\ Walking("visitBindingElement")
    /\ stack' = <<NameWalkFrame(Top.node.name[1], <<Top.node>>, Top.flag)>>
                \o WalkFrames(Top.node.init, <<Top.node>>, Top.parent)
                \o Tail(stack)
    /\ UNCHANGED <<ctl, required, optional, scopes, functionVars>>

\* the default case of walk: ts.forEachChild(node, walk)
walkChildren ==
    /\ Walking("walk")
    /\ Top.node.kind \notin DispatchedKinds
    /\ stack' = WalkFrames(ForEachChild(Top.node), <<Top.node>>, Top.parent) \o Tail(stack)
    /\ UNCHANGED <<ctl, required, optional, scopes, functionVars>>

-----------------------------------------------------------------------------
(* parseFunction, step by step                                              *)

walkerVars == <<required, optional, scopes, functionVars, stack>>

\* line 66-69: the classifier
parsedFunctionCode(r) ==
    IF r.error # ""
    THEN /\ error' = r.error
         /\ result' = <<>>
         /\ pc' = "done"
         /\ UNCHANGED functionCode
    ELSE /\ functionCode' = r.code
         /\ pc' = "createSourceFile"
         /\ UNCHANGED <<error, result>>

parseFunctionCodeStep ==
    /\ pc = "parseFunctionCode"
    /\ parsedFunctionCode(parseFunctionCode(funcString))
    /\ UNCHANGED <<funcString, global, file, walkerVars, capturedVariables,
                   usesNonLexicalThis, run, prev, hostVars>>

\* line 71, and lines 332-345: the parser adapter, then the start of the walk
createdSourceFile(parsed) ==
    IF parsed.diagnostics
    THEN \* throw new Error("Could not parse function: ...")
         /\ pc' = "threw"
         /\ UNCHANGED <<file, walkerVars>>
    ELSE /\ file' = <<parsed.file>>
         /\ required' = EmptyMap
         /\ optional' = EmptyMap
         /\ scopes' = <<>>
         /\ functionVars' = {}
         /\ stack' = WalkFrames(ForEachChild(parsed.file), <<parsed.file>>, <<>>)
         /\ pc' = "walk"

createSourceFileStep ==
    /\ pc = "createSourceFile"
    /\ createdSourceFile(createSourceFile(functionCode[1]))
    /\ UNCHANGED <<funcString, global, error, functionCode, capturedVariables,
                   usesNonLexicalThis, result, run, prev, hostVars>>

\* lines 349-367: the walk is over
computeCapturedVariableNames ==
    /\ pc = "walk"
    /\ stack = <<>>
    /\ capturedVariables' = <<FilterCaptured(required, optional)>>
    /\ pc' = "computeUsesNonLexicalThis"
    /\ UNCHANGED <<funcString, global, error, functionCode, file, walkerVars,
                   usesNonLexicalThis, result, run, prev, hostVars>>

\* line 77 without `!functionCode.isArrowFunction &&`
computeUsesNonLexicalThisStep_Unguarded ==
    /\ pc = "computeUsesNonLexicalThis"
    /\ usesNonLexicalThis' = computeUsesNonLexicalThis(file[1])
    /\ pc' = "return"
    /\ UNCHANGED <<funcString, global, error, functionCode, file, walkerVars,
                   capturedVariables, result, run, prev, hostVars>>

\* line 77 without the call of computeUsesNonLexicalThis: every function that is
\* no arrow function is taken to use `this`
computeUsesNonLexicalThisStep_NotArrow ==
    /\ pc = "computeUsesNonLexicalThis"
    /\ usesNonLexicalThis' = ~functionCode[1].isArrowFunction
    /\ pc' = "return"
    /\ UNCHANGED <<funcString, global, error, functionCode, file, walkerVars,
                   capturedVariables, result, run, prev, hostVars>>

\* line 77
computeUsesNonLexicalThisStep ==
    /\ pc = "computeUsesNonLexicalThis"
    /\ usesNonLexicalThis' =
           (~functionCode[1].isArrowFunction /\ computeUsesNonLexicalThis(file[1]))
    /\ pc' = "return"
    /\ UNCHANGED <<funcString, global, error, functionCode, file, walkerVars,
                   capturedVariables, result, run, prev, hostVars>>

\* lines 79-90 without the test of line 83
returnStep_NoError ==
    /\ pc = "return"
    /\ result' = <<[funcExprWithoutName     |-> functionCode[1].funcExprWithoutName,
                    funcExprWithName        |-> functionCode[1].funcExprWithName,
                    functionDeclarationName |-> functionCode[1].functionDeclarationName,
                    isArrowFunction         |-> functionCode[1].isArrowFunction,
                    capturedVariables       |-> capturedVariables[1],
                    usesNonLexicalThis      |-> usesNonLexicalThis]>>
    /\ error' = ""
    /\ pc' = "done"
    /\ UNCHANGED <<funcString, global, functionCode, file, walkerVars,
                   capturedVariables, usesNonLexicalThis, run, prev, hostVars>>

\* lines 79-90
returnStep ==
    /\ pc = "return"
    /\ result' = <<[funcExprWithoutName     |-> functionCode[1].funcExprWithoutName,
                    funcExprWithName        |-> functionCode[1].funcExprWithName,
                    functionDeclarationName |-> functionCode[1].functionDeclarationName,
                    isArrowFunction         |-> functionCode[1].isArrowFunction,
                    capturedVariables       |-> capturedVariables[1],
                    usesNonLexicalThis      |-> usesNonLexicalThis]>>
    /\ error' = IF "this" \in DOMAIN capturedVariables[1].required
                THEN ArrowCapturedThis ELSE ""
    /\ pc' = "done"
    /\ UNCHANGED <<funcString, global, functionCode, file, walkerVars,
                   capturedVariables, usesNonLexicalThis, run, prev, hostVars>>

-----------------------------------------------------------------------------
(* The inputs: function texts as V8 prints them.                            *)

\* statements per generated function body
MaxStmts == 2
\* calls of parseFunction per behaviour: the first on an input, each later one
\* on the funcExprWithoutName the call before returned
MaxRuns == 2

\* what comes before the body's "{"
Heads ==
    \* () => 
    { <<"(", ")", " ", "=>", " ">>,
    \* function foo() 
      <<"function", " ", "foo", "(", ")", " ">>,
    \* function* gen() 
      <<"function", "*", " ", "gen", "(", ")", " ">>,
    \* foo() 
      <<"foo", "(", ")", " ">>,
    \* function () 
      <<"function", " ", "(", ")", " ">>,
    \* function get foo() 
      <<"function", " ", "get", " ", "foo", "(", ")", " ">>,
    \* function foo () 
      <<"function", " ", "foo", " ", "(", ")", " ">>,
    \* catch() 
      <<"catch", "(", ")", " ">>,
    \* [a]() 
      <<"[", "a", "]", "(", ")", " ">>,
    \* (a) => 
      <<"(", "a", ")", " ", "=>", " ">>,
    \* function foo(a) 
      <<"function", " ", "foo", "(", "a", ")", " ">> }

PairHeads ==
    \* () => 
    { <<"(", ")", " ", "=>", " ">>,
    \* function foo() 
      <<"function", " ", "foo", "(", ")", " ">> }

Pool ==
    \* a;
    { <<"a", ";">>,
    \* a.b;
      <<"a", ".", "b", ";">>,
    \* a.c();
      <<"a", ".", "c", "(", ")", ";">>,
    \* typeof a;
      <<"typeof", " ", "a", ";">>,
    \* var a=b;
      <<"var", " ", "a", "=", "b", ";">>,
    \* let a=b;
      <<"let", " ", "a", "=", "b", ";">>,
    \* {let a;a.b;}
      <<"{", "let", " ", "a", ";", "a", ".", "b", ";", "}">>,
    \* this.x;
      <<"this", ".", "x", ";">>,
    \* foo;
      <<"foo", ";">>,
    \* function inner(){return a.b();}
      <<"function", " ", "inner", "(", ")", "{", "return", " ", "a", ".", "b", "(", ")",
        ";", "}">>,
    \* ()=>this;
      <<"(", ")", "=>", "this", ";">>,
    \* try{a;}catch(a){a;}
      <<"try", "{", "a", ";", "}", "catch", "(", "a", ")", "{", "a", ";", "}">> }

Scenarios ==
    \* x => x + y
    { <<"x", " ", "=>", " ", "x", " ", "+", " ", "y">>,
    \* () => { return typeof maybe; }
      <<"(", ")", " ", "=>", " ", "{", " ", "return", " ", "typeof", " ", "maybe", ";",
        " ", "}">>,
    \* foo() { return obj.bar(); }
      <<"foo", "(", ")", " ", "{", " ", "return", " ", "obj", ".", "bar", "(", ")", ";",
        " ", "}">>,
    \* function* gen() { yield this.x; }
      <<"function", "*", " ", "gen", "(", ")", " ", "{", " ", "yield", " ", "this", ".",
        "x", ";", " ", "}">>,
    \* class C extends B { }
      <<"class", " ", "C", " ", "extends", " ", "B", " ", "{", " ", "}">>,
    \* class C { }
      <<"class", " ", "C", " ", "{", " ", "}">>,
    \* class C extends B { constructor(a) { super(a); this.x = a; } foo() { } }
      <<"class", " ", "C", " ", "extends", " ", "B", " ", "{", " ", "constructor", "(",
        "a", ")", " ", "{", " ", "super", "(", "a", ")", ";", " ", "this", ".", "x", " ",
        "=", " ", "a", ";", " ", "}", " ", "foo", "(", ")", " ", "{", " ", "}", " ", "}">>,
    \* function outer() { return __awaiter(this, void 0, void 0, function* () { return a; }); }
      <<"function", " ", "outer", "(", ")", " ", "{", " ", "return", " ", "__awaiter",
        "(", "this", ",", " ", "void", " ", "0", ",", " ", "void", " ", "0", ",", " ",
        "function", "*", " ", "(", ")", " ", "{", " ", "return", " ", "a", ";", " ", "}",
        ")", ";", " ", "}">>,
    \* function outer() { return __awaiter(this, void 0, void 0, function* () { return this.a; }); }
      <<"function", " ", "outer", "(", ")", " ", "{", " ", "return", " ", "__awaiter",
        "(", "this", ",", " ", "void", " ", "0", ",", " ", "void", " ", "0", ",", " ",
        "function", "*", " ", "(", ")", " ", "{", " ", "return", " ", "this", ".", "a",
        ";", " ", "}", ")", ";", " ", "}">>,
    \* () => __awaiter(this, void 0, void 0, function* () { return this.a; })
      <<"(", ")", " ", "=>", " ", "__awaiter", "(", "this", ",", " ", "void", " ", "0",
        ",", " ", "void", " ", "0", ",", " ", "function", "*", " ", "(", ")", " ", "{",
        " ", "return", " ", "this", ".", "a", ";", " ", "}", ")">>,
    \* function outer() { return __awaiter(a, void 0, void 0, function* () { return this; }); }
      <<"function", " ", "outer", "(", ")", " ", "{", " ", "return", " ", "__awaiter",
        "(", "a", ",", " ", "void", " ", "0", ",", " ", "void", " ", "0", ",", " ",
        "function", "*", " ", "(", ")", " ", "{", " ", "return", " ", "this", ";", " ",
        "}", ")", ";", " ", "}">>,
    \* ({ x: y = z } = w) => y
      <<"(", "{", " ", "x", ":", " ", "y", " ", "=", " ", "z", " ", "}", " ", "=", " ",
        "w", ")", " ", "=>", " ", "y">>,
    \* (a = w) => a
      <<"(", "a", " ", "=", " ", "w", ")", " ", "=>", " ", "a">>,
    \* function f({ x, y: { z } }, b = this) { var { c = x } = z; }
      <<"function", " ", "f", "(", "{", " ", "x", ",", " ", "y", ":", " ", "{", " ", "z",
        " ", "}", " ", "}", ",", " ", "b", " ", "=", " ", "this", ")", " ", "{", " ",
        "var", " ", "{", " ", "c", " ", "=", " ", "x", " ", "}", " ", "=", " ", "z", ";",
        " ", "}">>,
    \* () => this.foo
      <<"(", ")", " ", "=>", " ", "this", ".", "foo">>,
    \* () => this
      <<"(", ")", " ", "=>", " ", "this">>,
    \* [Function: foo]
      <<"[Function:", " ", "foo", "]">>,
    \* function foo() { [native code] }
      <<"function", " ", "foo", "(", ")", " ", "{", " ", "[native code]", " ", "}">>,
    \* () => { [native code] }
      <<"(", ")", " ", "=>", " ", "{", " ", "[native code]", " ", "}">>,
    \* x => [native code]
      <<"x", " ", "=>", " ", "[native code]">>,
    \* foo
      <<"foo">>,
    \* foo { }
      <<"foo", " ", "{", " ", "}">>,
    \* class C {
      <<"class", " ", "C", " ", "{">>,
    \* () => {
      <<"(", ")", " ", "=>", " ", "{">>,
    \* function f() { console.log(require, module, a); typeof console; typeof maybe; }
      <<"function", " ", "f", "(", ")", " ", "{", " ", "console", ".", "log", "(",
        "require", ",", " ", "module", ",", " ", "a", ")", ";", " ", "typeof", " ",
        "console", ";", " ", "typeof", " ", "maybe", ";", " ", "}">>,
    \* () => ({ a: b, [c]: e, foo() { this; }, [f]() { super.x; } })
      <<"(", ")", " ", "=>", " ", "(", "{", " ", "a", ":", " ", "b", ",", " ", "[", "c",
        "]", ":", " ", "e", ",", " ", "foo", "(", ")", " ", "{", " ", "this", ";", " ",
        "}", ",", " ", "[", "f", "]", "(", ")", " ", "{", " ", "super", ".", "x", ";",
        " ", "}", " ", "}", ")">>,
    \* function f() { return new.target; }
      <<"function", " ", "f", "(", ")", " ", "{", " ", "return", " ", "new", ".",
        "target", ";", " ", "}">>,
    \* function f() { var x = function g() { g; }; g; }
      <<"function", " ", "f", "(", ")", " ", "{", " ", "var", " ", "x", " ", "=", " ",
        "function", " ", "g", "(", ")", " ", "{", " ", "g", ";", " ", "}", ";", " ", "g",
        ";", " ", "}">>,
    \* function f() { inner(); function inner() { return () => this; } }
      <<"function", " ", "f", "(", ")", " ", "{", " ", "inner", "(", ")", ";", " ",
        "function", " ", "inner", "(", ")", " ", "{", " ", "return", " ", "(", ")", " ",
        "=>", " ", "this", ";", " ", "}", " ", "}">>,
    \* function f() { { a; var a; } try { b; } catch { const e = f, c = e; } e; }
      <<"function", " ", "f", "(", ")", " ", "{", " ", "{", " ", "a", ";", " ", "var",
        " ", "a", ";", " ", "}", " ", "try", " ", "{", " ", "b", ";", " ", "}", " ",
        "catch", " ", "{", " ", "const", " ", "e", " ", "=", " ", "f", ",", " ", "c",
        " ", "=", " ", "e", ";", " ", "}", " ", "e", ";", " ", "}">>,
    \* function f() { typeof __computed; typeof a.b; a.b.c(); }
      <<"function", " ", "f", "(", ")", " ", "{", " ", "typeof", " ", "__computed", ";",
        " ", "typeof", " ", "a", ".", "b", ";", " ", "a", ".", "b", ".", "c", "(", ")",
        ";", " ", "}">>,
    \* function f() { a; function inner() { var a; a.b; } }
      <<"function", " ", "f", "(", ")", " ", "{", " ", "a", ";", " ", "function", " ",
        "inner", "(", ")", " ", "{", " ", "var", " ", "a", ";", " ", "a", ".", "b", ";",
        " ", "}", " ", "}">>,
    \* function f() { try { let a; () => a.b; } catch (e) { () => e.b; } a.c; e; }
      <<"function", " ", "f", "(", ")", " ", "{", " ", "try", " ", "{", " ", "let", " ",
        "a", ";", " ", "(", ")", " ", "=>", " ", "a", ".", "b", ";", " ", "}", " ",
        "catch", " ", "(", "e", ")", " ", "{", " ", "(", ")", " ", "=>", " ", "e", ".",
        "b", ";", " ", "}", " ", "a", ".", "c", ";", " ", "e", ";", " ", "}">>,
    \* function f() { a.b; { let x; (p) => { var y; a.c(); p; y; x; w; }; } }
      <<"function", " ", "f", "(", ")", " ", "{", " ", "a", ".", "b", ";", " ", "{",
        " ", "let", " ", "x", ";", " ", "(", "p", ")", " ", "=>", " ", "{", " ",
        "var", " ", "y", ";", " ", "a", ".", "c", "(", ")", ";", " ", "p", ";", " ",
        "y", ";", " ", "x", ";", " ", "w", ";", " ", "}", ";", " ", "}", " ", "}">> }

RECURSIVE Flatten(_)
Flatten(ss) == IF ss = <<>> THEN <<>> ELSE Head(ss) \o Flatten(Tail(ss))

\* the bodies of n statements of the pool
Bodies(n) == {<<"{">> \o Flatten(ss) \o <<"}">> : ss \in [1..n -> Pool]}

Inputs ==
    Scenarios
    \cup {h \o b : h \in Heads, b \in Bodies(0) \cup Bodies(1)}
    \cup {h \o b : h \in PairHeads, b \in UNION {Bodies(n) : n \in 2..MaxStmts}}

\* the names the host's `global` object may own
GlobalChoices == {{"console"}, {"console", "a", "maybe"}}

-----------------------------------------------------------------------------
(* The plugin host: NewPlugin, execPlugin and Plugin.Close of               *)
(* pkg/resource/plugin.go.  The child process, its standard output and the  *)
(* outcomes of cmd.Start, Read and grpc.Dial are the environment's.         *)

\* bytes the child writes to its standard output at most
MaxOutput == 3

\* the bytes a child writes: digits, another character, a sign, the newline
OutputBytes == {"8", "0", "x", "-", "\n"}

\* what a child writes to its standard output
Outputs == UNION {[1..n -> OutputBytes] : n \in 0..MaxOutput}

Digits == {"0", "1", "2", "3", "4", "5", "6", "7", "8", "9"}

\* strconv.Atoi(s) returns no error: an optional sign, then one decimal digit
\* or more (no number of MaxOutput digits is out of range)
AtoiOk(s) ==
    LET digits == IF s # <<>> /\ s[1] \in {"+", "-"} THEN Tail(s) ELSE s
    IN  digits # <<>> /\ \A i \in 1..Len(digits) : digits[i] \in Digits

\* the outcomes of cmd.Start(): the child runs, exec.ErrNotFound, another error
StartOutcomes == {"started", "ErrNotFound", "error"}

\* return nil, err
ReturnError(err) ==
    /\ returned' = <<[plugin |-> <<>>, err |-> err]>>
    /\ hostPc' = "returned"

\* proc.Kill(): SIGKILL to a process that runs, an error for one that has ended
Kill == proc' = IF proc = "running" THEN "killed" ELSE proc

\* what the plugin host leaves alone
parserVars == <<funcString, global, pc, error, functionCode, file, required, optional,
                scopes, functionVars, stack, capturedVariables, usesNonLexicalThis,
                result, run, prev>>

\* lines 131-140, a call that starts the child, whose output is `out`
Started(out) ==
    /\ proc' = "running"
    /\ procout' = out
    /\ hostPc' = "read"
    /\ UNCHANGED returned

\* lines 53-63: execPlugin(srvexe)
execPlugin ==
    /\ hostPc = "execPlugin"
    /\ \E outcome \in StartOutcomes, out \in Outputs :
           CASE outcome = "started" -> Started(out)
             [] outcome = "ErrNotFound" ->
                    /\ hostPc' = "execLibrary"
                    /\ UNCHANGED <<proc, procout, returned>>
             [] OTHER ->
                    /\ ReturnError("exec")
                    /\ UNCHANGED <<proc, procout>>
    /\ UNCHANGED <<parserVars, port, tracers, diag, conn>>

\* lines 56-59: execPlugin(libexe), in the workspace library
execPluginInLibrary ==
    /\ hostPc = "execLibrary"
    /\ \E outcome \in StartOutcomes, out \in Outputs :
           IF outcome = "started" THEN Started(out)
           ELSE /\ ReturnError("exec")
                /\ UNCHANGED <<proc, procout>>
    /\ UNCHANGED <<parserVars, port, tracers, diag, conn>>

\* lines 69-79, one turn of the loop: procout.Read(b) gives a byte, or an error
\* (the end of the output of a child that has ended, or a failure of the pipe)
readPort ==
    /\ hostPc = "read"
    /\ \/ /\ procout # <<>>
          /\ procout' = Tail(procout)
          /\ IF Head(procout) = "\n"
             THEN /\ hostPc' = "atoi"
                  /\ UNCHANGED port
             ELSE /\ port' = Append(port, Head(procout))
                  /\ UNCHANGED hostPc
          /\ UNCHANGED <<proc, returned>>
       \/ /\ procout = <<>> /\ proc = "exited"
          /\ Kill
          /\ ReturnError("EOF")
          /\ UNCHANGED <<procout, port>>
       \/ /\ Kill
          /\ ReturnError("read")
          /\ UNCHANGED <<procout, port>>
    /\ UNCHANGED <<parserVars, tracers, diag, conn>>

\* lines 82-87: the port line has to be a number
parsePort ==
    /\ hostPc = "atoi"
    /\ IF AtoiOk(port)
       THEN /\ hostPc' = "trace"
            /\ UNCHANGED <<proc, returned>>
       ELSE /\ Kill
            /\ ReturnError("non-numeric port")
    /\ UNCHANGED <<parserVars, procout, port, tracers, diag, conn>>

\* lines 92-112: the goroutines for the child's stdout and stderr are started
startTracers ==
    /\ hostPc = "trace"
    /\ tracers' = {"stdout", "stderr"}
    /\ hostPc' = "dial"
    /\ UNCHANGED <<parserVars, proc, procout, port, diag, conn, returned>>

\* lines 104-110, one turn of a goroutine's loop: reader.ReadString('\n') gives
\* a line, which goes to ctx.Diag, or an error at the end of the output of a
\* child that has ended, which ends the goroutine; what the child writes to
\* stderr is not modelled, so that stream only ends
tracer ==
    /\ \E t \in tracers :
           \/ /\ t = "stdout"
              /\ \E i \in 1..Len(procout) :
                     /\ procout[i] = "\n"
                     /\ \A j \in 1..(i - 1) : procout[j] # "\n"
                     /\ diag' = Append(diag, <<t, SubSeq(procout, 1, i - 1)>>)
                     /\ procout' = SubSeq(procout, i + 1, Len(procout))
              /\ UNCHANGED tracers
           \/ /\ t = "stdout" => \A i \in 1..Len(procout) : procout[i] # "\n"
              /\ proc # "running"
              /\ tracers' = tracers \ {t}
              /\ procout' = IF t = "stdout" THEN <<>> ELSE procout
              /\ UNCHANGED diag
    /\ UNCHANGED <<parserVars, hostPc, proc, port, conn, returned>>

\* lines 115-129: grpc.Dial gives a connection, and the Plugin is returned, or
\* an error, which is returned
dial ==
    /\ hostPc = "dial"
    /\ \/ /\ conn' = "open"
          /\ returned' = <<[plugin |-> <<"Plugin">>, err |-> ""]>>
          /\ hostPc' = "returned"
       \/ /\ ReturnError("dial")
          /\ UNCHANGED conn
    /\ UNCHANGED <<parserVars, proc, procout, port, tracers, diag>>

\* lines 243-250: Plugin.Close of the Plugin that NewPlugin returned
Close ==
    /\ hostPc = "returned"
    /\ returned[1].plugin # <<>>
    /\ conn' = "closed"
    /\ Kill
    /\ hostPc' = "closed"
    /\ UNCHANGED <<parserVars, procout, port, tracers, diag, returned>>

\* the child ends by itself
childExits ==
    /\ proc = "running"
    /\ proc' = "exited"
    /\ UNCHANGED <<parserVars, hostPc, procout, port, tracers, diag, conn, returned>>

\* no plugin host: the state of its variables while parseFunction is analyzed
HostIdle ==
    /\ hostPc = "idle"
    /\ proc = "none"
    /\ procout = <<>>
    /\ port = <<>>
    /\ tracers = {}
    /\ diag = <<>>
    /\ conn = "none"
    /\ returned = <<>>

-----------------------------------------------------------------------------
(* The caller                                                               *)

Init ==
    /\ funcString \in Inputs
    /\ global \in GlobalChoices
    /\ pc = "parseFunctionCode"
    /\ error = ""
    /\ functionCode = <<>>
    /\ file = <<>>
    /\ required = EmptyMap
    /\ optional = EmptyMap
    /\ scopes = <<>>
    /\ functionVars = {}
    /\ stack = <<>>
    /\ capturedVariables = <<>>
    /\ usesNonLexicalThis = FALSE
    /\ result = <<>>
    /\ run = 1
    /\ prev = <<>>
    /\ HostIdle

\* the caller analyzes the funcExprWithoutName it was given
callAgain ==
    /\ pc = "done"
    /\ result # <<>>
    /\ run < MaxRuns
    /\ funcString' = result[1].funcExprWithoutName
    /\ prev' = <<[funcString |-> funcString, error |-> error, result |-> result[1]]>>
    /\ run' = run + 1
    /\ pc' = "parseFunctionCode"
    /\ error' = ""
    /\ functionCode' = <<>>
    /\ file' = <<>>
    /\ required' = EmptyMap
    /\ optional' = EmptyMap
    /\ scopes' = <<>>
    /\ functionVars' = {}
    /\ stack' = <<>>
    /\ capturedVariables' = <<>>
    /\ usesNonLexicalThis' = FALSE
    /\ result' = <<>>
    /\ UNCHANGED <<global, hostVars>>

Next ==
    \/ parseFunctionCodeStep
    \/ createSourceFileStep
    \/ visitIdentifier
    \/ visitThisExpression
    \/ visitBlockStatement
    \/ scopesPop
    \/ visitCallExpression
    \/ visitCatchClause
    \/ visitMethodDeclaration
    \/ visitMetaProperty
    \/ visitPropertyAssignment
    \/ visitPropertyAccessExpression
    \/ visitFunctionDeclarationOrExpression
    \/ visitArrowFunction
    \/ visitBaseFunction
    \/ exitBaseFunction
    \/ visitVariableDeclaration
    \/ visitVariableDeclarationIdentifier
    \/ nameWalk
    \/ visitBindingElement
    \/ walkChildren
    \/ computeCapturedVariableNames
    \/ computeUsesNonLexicalThisStep
    \/ returnStep
    \/ callAgain

Spec == Init /\ [][Next]_vars

-----------------------------------------------------------------------------
(* The caller of NewPlugin                                                  *)

\* NewPlugin is called; nothing is analyzed meanwhile
PluginInit ==
    /\ funcString = <<>>
    /\ global = {}
    /\ pc = "idle"
    /\ error = ""
    /\ functionCode = <<>>
    /\ file = <<>>
    /\ required = EmptyMap
    /\ optional = EmptyMap
    /\ scopes = <<>>
    /\ functionVars = {}
    /\ stack = <<>>
    /\ capturedVariables = <<>>
    /\ usesNonLexicalThis = FALSE
    /\ result = <<>>
    /\ run = 1
    /\ prev = <<>>
    /\ hostPc = "execPlugin"
    /\ proc = "none"
    /\ procout = <<>>
    /\ port = <<>>
    /\ tracers = {}
    /\ diag = <<>>
    /\ conn = "none"
    /\ returned = <<>>

PluginNext ==
    \/ execPlugin
    \/ execPluginInLibrary
    \/ readPort
    \/ parsePort
    \/ startTracers
    \/ tracer
    \/ dial
    \/ Close
    \/ childExits

PluginSpec == PluginInit /\ [][PluginNext]_vars

-----------------------------------------------------------------------------
(* JavaScript's scoping rules, by which the captures are judged.            *)

Range(s) == {s[i] : i \in DOMAIN s}

RECURSIVE BoundNames(_)
\* the names a binding name (an identifier or an object pattern) declares
BoundNames(b) ==
    IF b.kind = "Identifier" THEN {b.text}
    ELSE UNION {BoundNames(b.kids[i].name[1]) : i \in 1..Len(b.kids)}

\* the names a list of declarations or parameters declares
DeclaredNames(decls) == UNION {BoundNames(decls[i].name[1]) : i \in 1..Len(decls)}

RECURSIVE VarDeclared(_)
\* the names that `var` and function declarations under n give the function
\* that holds n
VarDeclared(n) ==
    CASE n.kind = "FunctionDeclaration" -> {n.name[1].text}
      [] n.kind \in {"FunctionExpression", "ArrowFunction", "MethodDeclaration",
                     "Constructor"} -> {}
      [] n.kind = "VariableDeclarationList" /\ n.flags = {} -> DeclaredNames(n.kids)
      [] OTHER -> UNION {VarDeclared(ForEachChild(n)[i]) : i \in 1..Len(ForEachChild(n))}

\* the names that let, const and class declarations give the block of these
\* statements, wherever in the block they stand
LexicallyDeclared(stmts) ==
    UNION {IF stmts[i].kind = "VariableStatement" /\ stmts[i].kids[1].flags # {}
           THEN DeclaredNames(stmts[i].kids[1].kids)
           ELSE IF stmts[i].kind = "ClassDeclaration" THEN {stmts[i].name[1].text}
           ELSE {} : i \in 1..Len(stmts)}

\* a reference to `name`: to all of it, or to one property of it
Occurrence(name, all) == [name |-> name, all |-> all]

RECURSIVE FreeReferences(_)
RECURSIVE FreeInFunction(_, _)

FreeInAll(nodes) == UNION {FreeReferences(nodes[i]) : i \in 1..Len(nodes)}

\* the references under f that no declaration of f binds
FreeInFunction(f, isArrow) ==
    {r \in FreeInAll(f.params) \cup FreeReferences(f.kids[1]) :
        r.name \notin DeclaredNames(f.params)
                      \cup VarDeclared(f.kids[1])
                      \cup (IF f.kind = "FunctionExpression" /\ f.name # <<>>
                            THEN {f.name[1].text} ELSE {})
                      \cup (IF isArrow THEN {} ELSE {"this", "arguments"})}
    \cup (IF f.name # <<>> /\ f.name[1].kind = "ComputedPropertyName"
          THEN FreeReferences(f.name[1]) ELSE {})

\* the references under n that no declaration under n binds; the function of an
\* __awaiter call stands for the body of an async function or arrow.
FreeReferences(n) ==
    CASE n.kind = "Identifier" -> {Occurrence(n.text, TRUE)}
      [] n.kind = "ThisKeyword" -> {Occurrence("this", TRUE)}
      [] n.kind = "PropertyAccessExpression" ->
            IF n.kids[1].kind = "Identifier" THEN {Occurrence(n.kids[1].text, FALSE)}
            ELSE IF n.kids[1].kind = "ThisKeyword" THEN {Occurrence("this", FALSE)}
            ELSE FreeReferences(n.kids[1])
      [] n.kind = "MetaProperty" -> {}
      [] n.kind = "CallExpression" ->
            FreeReferences(n.kids[1])
            \cup (IF isAwaiterCall(n) THEN FreeInFunction(Arguments(n)[4], TRUE)
                  ELSE FreeInAll(Arguments(n)))
      [] n.kind = "ArrowFunction" -> FreeInFunction(n, TRUE)
      [] n.kind \in {"FunctionExpression", "FunctionDeclaration", "MethodDeclaration",
                     "Constructor"} -> FreeInFunction(n, FALSE)
      [] n.kind = "Block" ->
            {r \in FreeInAll(n.kids) : r.name \notin LexicallyDeclared(n.kids)}
      [] n.kind = "CatchClause" ->
            {r \in FreeReferences(n.kids[1]) : r.name \notin DeclaredNames(n.name)}
      [] n.kind \in {"VariableDeclaration", "Parameter", "BindingElement"} ->
            (IF n.name[1].kind = "Identifier" THEN {} ELSE FreeInAll(n.name[1].kids))
            \cup FreeInAll(n.init)
      [] n.kind = "PropertyAssignment" ->
            (IF n.name[1].kind = "ComputedPropertyName"
             THEN FreeReferences(n.name[1]) ELSE {})
            \cup FreeInAll(n.init)
      [] OTHER -> FreeInAll(ForEachChild(n))

-----------------------------------------------------------------------------
(* The properties.                                                          *)

\* parseFunction has returned a result
Returned == pc = "done" /\ result # <<>>

\* the keys of a returned CapturedVariables
Captured(cv) == DOMAIN cv.required \cup DOMAIN cv.optional

\* C1: for every input that parseFunctionCode accepts with isArrowFunction =
\* true, the returned usesNonLexicalThis is false, whatever this/super the text
\* holds.
C1_ArrowInvariant ==
    (Returned /\ result[1].isArrowFunction) => ~result[1].usesNonLexicalThis

\* an arrow function with `this` in its text was analyzed
C1_Witness ==
    /\ Returned
    /\ result[1].isArrowFunction
    /\ "this" \in Range(funcString)
    /\ computeUsesNonLexicalThis(file[1])

\* C2: no identifier is a key of both `required` and `optional` of the returned
\* CapturedVariables; one the walk put into both maps is kept in `required` only.
C2_Exclusivity ==
    capturedVariables # <<>> =>
        /\ DOMAIN capturedVariables[1].required \cap DOMAIN capturedVariables[1].optional = {}
        /\ \A key \in DOMAIN required \cap DOMAIN optional :
               ~isBuiltIn(key) =>
                   /\ key \in DOMAIN capturedVariables[1].required
                   /\ key \notin DOMAIN capturedVariables[1].optional

\* the walk put an identifier that is no built-in into both maps
C2_Witness ==
    /\ capturedVariables # <<>>
    /\ \E key \in DOMAIN required \cap DOMAIN optional : ~isBuiltIn(key)

\* C3: no key of the returned `required` or `optional` is owned by `global` or
\* is one of __dirname, __filename, exports, module, require.
C3_GlobalExclusion ==
    capturedVariables # <<>> =>
        \A x \in Captured(capturedVariables[1]) :
            /\ x \notin global
            /\ x \notin {"__dirname", "__filename", "exports", "module", "require"}

\* the walk collected a name `global` owns and a module global, and a result
\* was built
C3_Witness ==
    /\ capturedVariables # <<>>
    /\ (DOMAIN required \cup DOMAIN optional) \cap global # {}
    /\ (DOMAIN required \cup DOMAIN optional) \cap nodeModuleGlobals # {}

\* C4: if any free occurrence of an identifier of the output, in the outermost
\* function or a nested one, is of the whole value (not of one property), the
\* output entry of the identifier is the capture-all marker, the empty list.
C4_Absorption ==
    Returned =>
        \A x \in DOMAIN result[1].capturedVariables.required :
            (\E r \in FreeReferences(file[1]) : r.name = x /\ r.all)
                => result[1].capturedVariables.required[x] = <<>>

\* C5: every identifier of the output has a reference in the tree that no
\* declaration binds: no parameter, var, function name, this or arguments of a
\* function around it, and no let, const or catch binding of a block around it,
\* wherever in the block the declaration stands.
C5_ShadowingSoundness ==
    Returned =>
        \A x \in Captured(result[1].capturedVariables) :
            \E r \in FreeReferences(file[1]) : r.name = x

\* the identifiers of the text before the first "(" that come again after it
SelfReferences(s) ==
    IF IndexOf(s, "(") <= 0 THEN {}
    ELSE Range(Substring(s, 0, IndexOf(s, "("))) \cap Range(Substr(s, IndexOf(s, "(")))
         \cap IdentTokens

\* the call before this one returned captures, and this call is over
Reanalyzed == run > 1 /\ pc \in {"done", "threw"}

\* this call returned the captures the call before returned
SameCaptures ==
    /\ Returned
    /\ result[1].capturedVariables = prev[1].result.capturedVariables

\* C6, as stated: parseFunction of the funcExprWithoutName of a result returns
\* the same required and optional maps, also when the function refers to its
\* own name.
C6_Idempotence == Reanalyzed => SameCaptures

\* C6, amended: the same holds when neither the function's own name nor
\* __computed occurs after the first "(" of the text.
C6_IdempotenceWithoutSelfReference ==
    (/\ Reanalyzed
     /\ SelfReferences(prev[1].funcString) = {}
     /\ "__computed" \notin Range(prev[1].funcString))
        => SameCaptures

\* a named function that captures something was analyzed again
C6_Witness ==
    /\ Reanalyzed
    /\ SelfReferences(prev[1].funcString) = {}
    /\ "__computed" \notin Range(prev[1].funcString)
    /\ prev[1].result.functionDeclarationName # NoName
    /\ DOMAIN prev[1].result.capturedVariables.required # {}
    /\ SameCaptures

\* C7: when parseFunctionCode and createSourceFile succeed, the error message
\* is non-empty exactly when the returned `required` has the key `this`, and
\* either way the result holds the code, the captures and usesNonLexicalThis.
C7_ErrorIffThisCaptured ==
    (pc = "done" /\ file # <<>>) =>
        /\ result # <<>>
        /\ (error # "") <=> ("this" \in DOMAIN result[1].capturedVariables.required)
        /\ result[1].funcExprWithoutName = functionCode[1].funcExprWithoutName
        /\ result[1].funcExprWithName = functionCode[1].funcExprWithName
        /\ result[1].isArrowFunction = functionCode[1].isArrowFunction
        /\ result[1].capturedVariables = capturedVariables[1]
        /\ result[1].usesNonLexicalThis = usesNonLexicalThis

\* `() => this.foo` returned the error and the capture of this.foo
C7_Witness ==
    /\ Returned
    /\ error = ArrowCapturedThis
    /\ result[1].capturedVariables.required =
           [this |-> <<[name |-> "foo", invoked |-> FALSE]>>]

\* the texts the classifier is to reject: "[Function:" in front, "[native code]"
\* anywhere, or no shape: neither "{" nor "=>", or no "(" in a text that is no
\* arrow function and no class
Rejected(s) ==
    \/ StartsWith(s, <<"[Function:">>)
    \/ "[native code]" \in Range(s)
    \/ IndexOf(s, "{") < 0 /\ IndexOf(s, "=>") < 0
    \/ /\ IndexOf(s, "{") >= 0
       /\ IndexOf(Substring(s, 0, IndexOf(s, "{")), "=>") < 0
       /\ ~StartsWith(s, <<"class", " ">>)
       /\ IndexOf(s, "(") < 0

\* C8: a rejected text makes parseFunction return a non-empty error and no
\* result, without a throw and without createSourceFile, the walk or
\* computeUsesNonLexicalThis.
C8_ClassifierRejection ==
    Rejected(funcString) =>
        /\ pc \in {"parseFunctionCode", "done"}
        /\ functionCode = <<>>
        /\ file = <<>>
        /\ stack = <<>>
        /\ capturedVariables = <<>>
        /\ pc = "done" => (error # "" /\ result = <<>>)

\* a text of function shape that holds "[native code]" was rejected
C8_Witness ==
    /\ pc = "done"
    /\ "[native code]" \in Range(funcString)
    /\ StartsWith(funcString, <<"function">>)
    /\ IndexOf(funcString, "{") >= 0
    /\ error = NativeCode
    /\ result = <<>>

\* ({ x: y = z } = w) => y
DestructuringWithDefault ==
    <<"(", "{", " ", "x", ":", " ", "y", " ", "=", " ", "z", " ", "}", " ", "=", " ",
      "w", ")", " ", "=>", " ", "y">>

\* C9: `required` of ({ x: y = z } = w) => y is exactly { z: all, w: all }.
C9_DestructuringWithDefault ==
    (funcString = DestructuringWithDefault /\ pc \in {"done", "threw"}) =>
        /\ Returned
        /\ result[1].capturedVariables.required = [z |-> <<>>, w |-> <<>>]

\* function outer() { return __awaiter(this, void 0, void 0, function* () { return a; }); }
AsyncWrapper ==
    <<"function", " ", "outer", "(", ")", " ", "{", " ", "return", " ", "__awaiter",
      "(", "this", ",", " ", "void", " ", "0", ",", " ", "void", " ", "0", ",", " ",
      "function", "*", " ", "(", ")", " ", "{", " ", "return", " ", "a", ";", " ", "}",
      ")", ";", " ", "}">>

\* the async wrapper was analyzed under a `global` that owns none of its words
AsyncWrapperAnalyzed ==
    /\ funcString = AsyncWrapper
    /\ global \cap Range(funcString) = {}
    /\ pc \in {"done", "threw"}

\* C10, as stated: `required` of the async wrapper is exactly { a: all } and
\* `optional` is empty.
C10_AsyncWrapperCaptures ==
    AsyncWrapperAnalyzed =>
        /\ Returned
        /\ result[1].capturedVariables = [required |-> [a |-> <<>>], optional |-> EmptyMap]

\* C10, amended: `required` of the async wrapper is exactly
\* { __awaiter: all, a: all }, the callee being walked, and `optional` is empty.
C10_AsyncWrapperCapturesCallee ==
    AsyncWrapperAnalyzed =>
        /\ Returned
        /\ result[1].capturedVariables =
               [required |-> [__awaiter |-> <<>>, a |-> <<>>], optional |-> EmptyMap]

\* the async wrapper was analyzed and the walk entered its function*
C10_Witness ==
    /\ AsyncWrapperAnalyzed
    /\ Returned
    /\ "a" \in DOMAIN result[1].capturedVariables.required
    /\ ~result[1].usesNonLexicalThis

\* foo() { return obj.bar(); }
MethodWithPropertyAccess ==
    <<"foo", "(", ")", " ", "{", " ", "return", " ", "obj", ".", "bar", "(", ")", ";",
      " ", "}">>

\* the method was analyzed to its end
MethodWithPropertyAccessAnalyzed ==
    funcString = MethodWithPropertyAccess /\ pc \in {"done", "threw"}

\* C11, as stated: for foo() { return obj.bar(); }, which holds neither this
\* nor super, the returned usesNonLexicalThis is true.
C11_MethodUsesNonLexicalThis ==
    MethodWithPropertyAccessAnalyzed =>
        /\ Returned
        /\ result[1].usesNonLexicalThis

\* C11, amended: for foo() { return obj.bar(); } the returned
\* usesNonLexicalThis is false, the text holding neither this nor super.
C11_MethodUsesNoNonLexicalThis ==
    MethodWithPropertyAccessAnalyzed =>
        /\ Returned
        /\ ~result[1].usesNonLexicalThis

\* the method was analyzed as the function foo and obj.bar() was captured
C11_Witness ==
    /\ MethodWithPropertyAccessAnalyzed
    /\ Returned
    /\ ~result[1].isArrowFunction
    /\ result[1].funcExprWithName = <<<<"function", " ">> \o MethodWithPropertyAccess>>
    /\ result[1].capturedVariables.required =
           [obj |-> <<[name |-> "bar", invoked |-> TRUE]>>]

\* function* gen() { yield this.x; }
GeneratorWithThis ==
    <<"function", "*", " ", "gen", "(", ")", " ", "{", " ", "yield", " ", "this", ".",
      "x", ";", " ", "}">>

\* the generator was analyzed to its end
GeneratorWithThisAnalyzed ==
    funcString = GeneratorWithThis /\ pc \in {"done", "threw"}

\* what C12 says of the generator apart from its `required` map
GeneratorWithThisReturned ==
    /\ Returned
    /\ ~result[1].isArrowFunction
    /\ result[1].functionDeclarationName = <<<<"gen">>>>
    /\ result[1].usesNonLexicalThis

\* C12, as stated: function* gen() { yield this.x; } returns isArrowFunction =
\* false, functionDeclarationName = "gen", usesNonLexicalThis = true and a
\* `required` with the entry this -> [{name: x, invoked: false}].
C12_GeneratorCapturesThis ==
    GeneratorWithThisAnalyzed =>
        /\ GeneratorWithThisReturned
        /\ "this" \in DOMAIN result[1].capturedVariables.required
        /\ result[1].capturedVariables.required["this"] =
               <<[name |-> "x", invoked |-> FALSE]>>

\* C12, amended: the same, but `required` has no entry for this, `this` being
\* a function-scoped name of the generator.
C12_GeneratorDoesNotCaptureThis ==
    GeneratorWithThisAnalyzed =>
        /\ GeneratorWithThisReturned
        /\ "this" \notin DOMAIN result[1].capturedVariables.required

\* the generator was analyzed and `this` is no key of `required`
C12_Witness ==
    /\ GeneratorWithThisAnalyzed
    /\ Returned
    /\ result[1].funcExprWithName = <<<<"function", "*", " ", "gen", "(", ")", " ", "{",
                                       " ", "yield", " ", "this", ".", "x", ";", " ",
                                       "}">>>>
    /\ "this" \notin DOMAIN result[1].capturedVariables.required

\* class C { }
ClassWithoutConstructor ==
    <<"class", " ", "C", " ", "{", " ", "}">>

\* class C extends B { }
SubClassWithoutConstructor ==
    <<"class", " ", "C", " ", "extends", " ", "B", " ", "{", " ", "}">>

\* constructor() { }
EmptyConstructor ==
    <<"constructor", "(", ")", " ", "{", " ", "}">>

\* constructor() { super(); }
SuperConstructor ==
    <<"constructor", "(", ")", " ", "{", " ", "super", "(", ")", ";", " ", "}">>

\* the text `code` is a function with the parameter list and body of `method`
FunctionOf(code, method) ==
    /\ StartsWith(code, <<"function", " ">>)
    /\ Substr(code, IndexOf(code, "(")) = Substr(method, IndexOf(method, "("))

\* parseFunctionCode has returned: functionCode is the code made of the method
\* text `method`, no arrow function and no function declaration
ClassifiedAsMethod(method) ==
    /\ pc # "parseFunctionCode"
    /\ error = ""
    /\ functionCode # <<>>
    /\ ~functionCode[1].isArrowFunction
    /\ functionCode[1].functionDeclarationName = NoName
    /\ functionCode[1].funcExprWithName # NoName
    /\ FunctionOf(functionCode[1].funcExprWithName[1], method)
    /\ FunctionOf(functionCode[1].funcExprWithoutName, method)

\* C13: a class without a constructor is classified as the method
\* constructor() { } when it has no extends clause and as
\* constructor() { super(); } when it has one; in the second case the returned
\* usesNonLexicalThis is true and neither capture map has the key super.
C13_ConstructorSynthesis ==
    /\ (funcString = ClassWithoutConstructor /\ pc # "parseFunctionCode")
           => ClassifiedAsMethod(EmptyConstructor)
    /\ (funcString = SubClassWithoutConstructor /\ pc # "parseFunctionCode")
           => /\ ClassifiedAsMethod(SuperConstructor)
              /\ pc # "threw"
              /\ pc = "done" =>
                     /\ Returned
                     /\ result[1].usesNonLexicalThis
                     /\ "super" \notin Captured(result[1].capturedVariables)

\* class C extends B { } was analyzed to its end
C13_Witness ==
    /\ funcString = SubClassWithoutConstructor
    /\ Returned
    /\ ClassifiedAsMethod(SuperConstructor)
    /\ result[1].usesNonLexicalThis

\* function outer() { return __awaiter(this, void 0, void 0, function* () { return this.a; }); }
AsyncWrapperWithThis ==
    <<"function", " ", "outer", "(", ")", " ", "{", " ", "return", " ", "__awaiter",
      "(", "this", ",", " ", "void", " ", "0", ",", " ", "void", " ", "0", ",", " ",
      "function", "*", " ", "(", ")", " ", "{", " ", "return", " ", "this", ".", "a",
      ";", " ", "}", ")", ";", " ", "}">>

\* C14: of a call __awaiter(this, _, _, function) computeUsesNonLexicalThis
\* visits the callee and the body of the fourth argument only: the function
\* whose only `this` is the first argument of the call has usesNonLexicalThis =
\* false, the one with a `this` in the body of the fourth argument has it true.
C14_AwaiterArgumentsNotVisited ==
    /\ (funcString = AsyncWrapper /\ pc \in {"done", "threw"})
           => (Returned /\ ~result[1].usesNonLexicalThis)
    /\ (funcString = AsyncWrapperWithThis /\ pc \in {"done", "threw"})
           => (Returned /\ result[1].usesNonLexicalThis)

\* the wrapper with `this` in the body of its function* was analyzed
C14_Witness ==
    /\ funcString = AsyncWrapperWithThis
    /\ Returned
    /\ ~result[1].isArrowFunction
    /\ result[1].usesNonLexicalThis

\* the outermost function-like node of the parsed file, as 0 or 1 node: the
\* file holds one statement, the parenthesized function
OutermostFunction(f) ==
    IF /\ Len(f.kids) = 1
       /\ Len(f.kids[1].kids) = 1
       /\ Len(f.kids[1].kids[1].kids) = 1
       /\ isFunctionLike(f.kids[1].kids[1].kids[1])
    THEN <<f.kids[1].kids[1].kids[1]>>
    ELSE <<>>

RECURSIVE ThisOutsideNestedFunctions(_)
\* whether a this or super token lies in the tree of n outside every method,
\* function declaration and function expression of that tree
ThisOutsideNestedFunctions(n) ==
    CASE n.kind \in {"ThisKeyword", "SuperKeyword"} -> TRUE
      [] n.kind \in {"MethodDeclaration", "FunctionDeclaration", "FunctionExpression"} ->
            FALSE
      [] OTHER ->
            \E i \in 1..Len(ForEachChild(n)) :
                ThisOutsideNestedFunctions(ForEachChild(n)[i])

\* whether a this or super token lies inside the outermost function-like node
\* and inside no nested function of it that is no arrow function
LexicalThisOfOutermost(f) ==
    /\ OutermostFunction(f) # <<>>
    /\ \E i \in 1..Len(ForEachChild(OutermostFunction(f)[1])) :
           ThisOutsideNestedFunctions(ForEachChild(OutermostFunction(f)[1])[i])

\* C15: for a function that is no arrow function, usesNonLexicalThis is true
\* exactly when a this or super token lies inside the outermost function-like
\* node and inside no nested method, function declaration or function
\* expression; nested arrow functions do not hide the token.
C15_NonLexicalThisBarrier ==
    (Returned /\ ~result[1].isArrowFunction) =>
        (result[1].usesNonLexicalThis <=> LexicalThisOfOutermost(file[1]))

-----------------------------------------------------------------------------
(* The free references of a tree in source order, each with the property    *)
(* read from it and with its position: callee of a call, operand of typeof. *)

\* a reference to `name`: property is <<>> for the whole value and <<p>> for
\* name.p, invoked says that name.p is the callee of a call, probed that the
\* name is the operand of typeof
Reference(name, property, invoked, probed) ==
    [name |-> name, property |-> property, invoked |-> invoked, probed |-> probed]

\* the references of refs to none of the names
Unbound(refs, names) ==
    LET free(r) == r.name \notin names
    IN  SelectSeq(refs, free)

RECURSIVE References(_, _)
RECURSIVE ReferencesInFunction(_, _)

\* the references under each of the nodes, in their order
ReferencesInAll(nodes) ==
    Flatten([i \in 1..Len(nodes) |-> References(nodes[i], "operand")])

\* the references under f that no declaration of f binds
ReferencesInFunction(f, isArrow) ==
    (IF f.name # <<>> /\ f.name[1].kind = "ComputedPropertyName"
     THEN References(f.name[1], "operand") ELSE <<>>)
    \o Unbound(ReferencesInAll(f.params) \o References(f.kids[1], "operand"),
               DeclaredNames(f.params)
               \cup VarDeclared(f.kids[1])
               \cup (IF f.kind = "FunctionExpression" /\ f.name # <<>>
                     THEN {f.name[1].text} ELSE {})
               \cup (IF isArrow THEN {} ELSE {"this", "arguments"}))

\* the references under n that no declaration under n binds; role is the
\* position of n in its parent: "callee", "typeof" or "operand"
References(n, role) ==
    CASE n.kind = "Identifier" -> <<Reference(n.text, <<>>, FALSE, role = "typeof")>>
      [] n.kind = "ThisKeyword" -> <<Reference("this", <<>>, FALSE, FALSE)>>
      [] n.kind = "PropertyAccessExpression" ->
            IF n.kids[1].kind = "Identifier"
            THEN <<Reference(n.kids[1].text, <<n.name[1].text>>, role = "callee", FALSE)>>
            ELSE IF n.kids[1].kind = "ThisKeyword"
            THEN <<Reference("this", <<n.name[1].text>>, role = "callee", FALSE)>>
            ELSE References(n.kids[1], "operand")
      [] n.kind = "TypeOfExpression" -> References(n.kids[1], "typeof")
      [] n.kind = "MetaProperty" -> <<>>
      [] n.kind = "CallExpression" ->
            References(n.kids[1], "callee")
            \o (IF isAwaiterCall(n) THEN ReferencesInFunction(Arguments(n)[4], TRUE)
                ELSE ReferencesInAll(Arguments(n)))
      [] n.kind = "ArrowFunction" -> ReferencesInFunction(n, TRUE)
      [] n.kind \in {"FunctionExpression", "FunctionDeclaration", "MethodDeclaration",
                     "Constructor"} -> ReferencesInFunction(n, FALSE)
      [] n.kind = "Block" -> Unbound(ReferencesInAll(n.kids), LexicallyDeclared(n.kids))
      [] n.kind = "CatchClause" ->
            Unbound(References(n.kids[1], "operand"), DeclaredNames(n.name))
      [] n.kind \in {"VariableDeclaration", "Parameter", "BindingElement"} ->
            (IF n.name[1].kind = "Identifier" THEN <<>>
             ELSE ReferencesInAll(n.name[1].kids))
            \o ReferencesInAll(n.init)
      [] n.kind = "PropertyAssignment" ->
            (IF n.name[1].kind = "ComputedPropertyName"
             THEN References(n.name[1], "operand") ELSE <<>>)
            \o ReferencesInAll(n.init)
      [] OTHER -> ReferencesInAll(ForEachChild(n))

\* the references of the file to the name x
ReferencesTo(f, x) ==
    LET named(r) == r.name = x
    IN  SelectSeq(References(f, "operand"), named)

RECURSIVE PropertyList(_, _)
\* the properties read by the references refs, each once and in the order of
\* its first reference, invoked when one of its references is; acc is the
\* list so far
PropertyList(refs, acc) ==
    IF refs = <<>> THEN acc
    ELSE LET p == Head(refs).property[1]
             seen == {i \in 1..Len(acc) : acc[i].name = p}
         IN  PropertyList(Tail(refs),
                 IF seen = {}
                 THEN Append(acc, [name |-> p, invoked |-> Head(refs).invoked])
                 ELSE [i \in 1..Len(acc) |->
                          IF i \in seen
                          THEN [name |-> p, invoked |-> acc[i].invoked \/ Head(refs).invoked]
                          ELSE acc[i]])

\* the entry the references refs to one name call for: capture-all when one of
\* them is to the whole value, the list of the properties read otherwise
ExpectedEntry(refs) ==
    IF \E i \in 1..Len(refs) : refs[i].property = <<>> THEN <<>>
    ELSE PropertyList(refs, <<>>)

\* the entry of x in the returned captures
EntryOf(cv, x) == IF x \in DOMAIN cv.required THEN cv.required[x] ELSE cv.optional[x]

\* C16: the entry of a captured identifier whose every free reference reads a
\* property of it lists each property read once, in the order of the first
\* reference, with invoked true exactly when one of the references to the
\* property, in the outermost or a nested function, is the callee of a call;
\* a free reference of another kind makes the entry capture-all.
C16_PropertyCaptureList ==
    Returned =>
        \A x \in Captured(result[1].capturedVariables) :
            ReferencesTo(file[1], x) # <<>> =>
                EntryOf(result[1].capturedVariables, x)
                    = ExpectedEntry(ReferencesTo(file[1], x))

\* the names of a list of references
ReferencedNames(refs) == {refs[i].name : i \in 1..Len(refs)}

\* the names the file refers to freely
FreeNames(f) == ReferencedNames(References(f, "operand"))

\* every reference of refs is the operand of typeof
OnlyProbed(refs) == \A i \in 1..Len(refs) : refs[i].probed

\* C17: a free identifier that is no built-in and whose every free occurrence
\* is the operand of typeof is a key of the returned `optional` and not of
\* `required`; one with an occurrence of another kind is a key of `required`.
C17_TypeOfProbing ==
    Returned =>
        \A x \in FreeNames(file[1]) :
            ~isBuiltIn(x) =>
                IF OnlyProbed(ReferencesTo(file[1], x))
                THEN /\ x \in DOMAIN result[1].capturedVariables.optional
                     /\ x \notin DOMAIN result[1].capturedVariables.required
                ELSE x \in DOMAIN result[1].capturedVariables.required

RECURSIVE FunctionExpressionNames(_)
\* the names of the named function expressions under n
FunctionExpressionNames(n) ==
    (IF n.kind = "FunctionExpression" /\ n.name # <<>> THEN {n.name[1].text} ELSE {})
    \cup UNION {FunctionExpressionNames(ForEachChild(n)[i]) :
                    i \in 1..Len(ForEachChild(n))}

\* C18: the name of a named function expression is in scope inside that
\* expression only: a reference to the name that stands outside the expression
\* and that nothing else binds is free, and the name is captured.
C18_FunctionExpressionNameScoping ==
    Returned =>
        \A x \in FunctionExpressionNames(file[1]) \cap FreeNames(file[1]) :
            ~isBuiltIn(x) => x \in Captured(result[1].capturedVariables)

\* the names of the function-var scope of the function f: its parameters, the
\* var and function declarations of its body, its own name, and this and
\* arguments unless f is an arrow function
FunctionVarNames(f, isArrow) ==
    DeclaredNames(f.params)
    \cup VarDeclared(f.kids[1])
    \cup (IF f.kind \in {"FunctionExpression", "FunctionDeclaration"} /\ f.name # <<>>
          THEN {f.name[1].text} ELSE {})
    \cup (IF isArrow THEN {} ELSE {"this", "arguments"})

RECURSIVE NamesOutsideFunctionVars(_)

\* the names referred to under f and not in the function-var scope of f
NamesLeavingFunction(f, isArrow) ==
    (UNION {NamesOutsideFunctionVars(f.params[i]) : i \in 1..Len(f.params)}
     \cup NamesOutsideFunctionVars(f.kids[1])) \ FunctionVarNames(f, isArrow)

\* the names referred to under n by a reference that stands in the function-var
\* scope of no function under n that holds it; block scopes are not looked at
NamesOutsideFunctionVars(n) ==
    CASE n.kind = "Identifier" -> {n.text}
      [] n.kind = "ThisKeyword" -> {"this"}
      [] n.kind = "PropertyAccessExpression" -> NamesOutsideFunctionVars(n.kids[1])
      [] n.kind = "MetaProperty" -> {}
      [] n.kind = "CallExpression" /\ isAwaiterCall(n) ->
            NamesOutsideFunctionVars(n.kids[1])
            \cup NamesLeavingFunction(Arguments(n)[4], TRUE)
      [] n.kind = "ArrowFunction" -> NamesLeavingFunction(n, TRUE)
      [] n.kind \in {"FunctionExpression", "FunctionDeclaration", "Constructor"} ->
            NamesLeavingFunction(n, FALSE)
      [] n.kind = "MethodDeclaration" ->
            NamesLeavingFunction(n, FALSE)
            \cup (IF n.name # <<>> /\ n.name[1].kind = "ComputedPropertyName"
                  THEN NamesOutsideFunctionVars(n.name[1]) ELSE {})
      [] n.kind \in {"VariableDeclaration", "Parameter", "BindingElement"} ->
            (IF n.name[1].kind = "Identifier" THEN {}
             ELSE UNION {NamesOutsideFunctionVars(n.name[1].kids[i]) :
                             i \in 1..Len(n.name[1].kids)})
            \cup UNION {NamesOutsideFunctionVars(n.init[i]) : i \in 1..Len(n.init)}
      [] n.kind = "CatchClause" -> NamesOutsideFunctionVars(n.kids[1])
      [] n.kind = "PropertyAssignment" ->
            (IF n.name[1].kind = "ComputedPropertyName"
             THEN NamesOutsideFunctionVars(n.name[1]) ELSE {})
            \cup UNION {NamesOutsideFunctionVars(n.init[i]) : i \in 1..Len(n.init)}
      [] OTHER ->
            UNION {NamesOutsideFunctionVars(ForEachChild(n)[i]) :
                       i \in 1..Len(ForEachChild(n))}

RECURSIVE NestedVarNames(_)
\* the names that the var and function declarations of the functions under n
\* declare
NestedVarNames(n) ==
    (IF isFunctionLike(n) THEN VarDeclared(n.kids[1]) ELSE {})
    \cup UNION {NestedVarNames(ForEachChild(n)[i]) : i \in 1..Len(ForEachChild(n))}

\* the names var-declared in a function nested in the outermost function
VarNamesOfNestedFunctions(f) ==
    IF OutermostFunction(f) = <<>> THEN {}
    ELSE NestedVarNames(OutermostFunction(f)[1].kids[1])

\* C19: no returned capture is of a name that every function around its
\* references holds in its function-var scope (parameters, var declarations
\* anywhere in the function, the function's own name, this and arguments of a
\* function that is no arrow function), also when the reference stands in a
\* nested function; and a var of a nested function does not hide a free
\* reference of the enclosing function to the same name.
C19_FunctionVarsRemoved ==
    Returned =>
        /\ Captured(result[1].capturedVariables) \subseteq NamesOutsideFunctionVars(file[1])
        /\ \A x \in VarNamesOfNestedFunctions(file[1]) \cap FreeNames(file[1]) :
               ~isBuiltIn(x) => x \in Captured(result[1].capturedVariables)

\* function f() { a; function inner() { var a; a.b; } }
VarInNestedFunction ==
    <<"function", " ", "f", "(", ")", " ", "{", " ", "a", ";", " ", "function", " ",
      "inner", "(", ")", " ", "{", " ", "var", " ", "a", ";", " ", "a", ".", "b", ";",
      " ", "}", " ", "}">>

\* the function with a var in its nested function was analyzed: the `a` of f is
\* captured, the a.b of inner is not
C19_Witness ==
    /\ funcString = VarInNestedFunction
    /\ Returned
    /\ "a" \in VarNamesOfNestedFunctions(file[1]) \cap FreeNames(file[1])
    /\ result[1].capturedVariables.required = [a |-> <<>>]

RECURSIVE BlockBoundNames(_)
\* the names that the let, const and class declarations of the blocks under n
\* and the catch clauses under n bind
BlockBoundNames(n) ==
    (CASE n.kind = "Block" -> LexicallyDeclared(n.kids)
       [] n.kind = "CatchClause" -> DeclaredNames(n.name)
       [] OTHER -> {})
    \cup UNION {BlockBoundNames(ForEachChild(n)[i]) : i \in 1..Len(ForEachChild(n))}

\* function f() { try { let a; () => a.b; } catch (e) { () => e.b; } a.c; e; }
BlockAndCatchScopes ==
    <<"function", " ", "f", "(", ")", " ", "{", " ", "try", " ", "{", " ", "let", " ",
      "a", ";", " ", "(", ")", " ", "=>", " ", "a", ".", "b", ";", " ", "}", " ",
      "catch", " ", "(", "e", ")", " ", "{", " ", "(", ")", " ", "=>", " ", "e", ".",
      "b", ";", " ", "}", " ", "a", ".", "c", ";", " ", "e", ";", " ", "}">>

\* C20: a name that let or const binds in a block, or that is a catch
\* parameter, hides references while the block or catch clause is walked, those
\* of nested functions too, and no others: a reference to the name that stands
\* outside is free, and the name is captured.
C20_BlockAndCatchScoping ==
    Returned =>
        /\ \A x \in BlockBoundNames(file[1]) \cap FreeNames(file[1]) :
               ~isBuiltIn(x) => x \in Captured(result[1].capturedVariables)
        /\ (funcString = BlockAndCatchScopes /\ global \cap {"a", "e"} = {}) =>
               result[1].capturedVariables.required =
                   [a |-> <<[name |-> "c", invoked |-> FALSE]>>, e |-> <<>>]

\* the function with a let and a catch parameter was analyzed: the references
\* behind the block and the catch clause are captured, those inside are not
C20_Witness ==
    /\ funcString = BlockAndCatchScopes
    /\ Returned
    /\ {"a", "e"} \subseteq BlockBoundNames(file[1]) \cap FreeNames(file[1])
    /\ result[1].capturedVariables.required =
           [a |-> <<[name |-> "c", invoked |-> FALSE]>>, e |-> <<>>]

-----------------------------------------------------------------------------
(* The frame of a function visit.                                           *)

\* function f() { a.b; { let x; (p) => { var y; a.c(); p; y; x; w; }; } }
NestedFunctionFrame ==
    <<"function", " ", "f", "(", ")", " ", "{", " ", "a", ".", "b", ";", " ", "{",
      " ", "let", " ", "x", ";", " ", "(", "p", ")", " ", "=>", " ", "{", " ",
      "var", " ", "y", ";", " ", "a", ".", "c", "(", ")", ";", " ", "p", ";", " ",
      "y", ";", " ", "x", ";", " ", "w", ";", " ", "}", ";", " ", "}", " ", "}">>

\* the entry `wide` captures all that the entry `narrow` captures
Covers(wide, narrow) ==
    \/ wide = <<>>
    \/ /\ narrow # <<>>
       /\ \A i \in 1..Len(narrow) : \E j \in 1..Len(wide) :
              /\ wide[j].name = narrow[i].name
              /\ narrow[i].invoked => wide[j].invoked

\* the map `after` is the map `before` extended by the map `child`: the keys of
\* both, each entry as wide as the entries it comes from, and nothing in it that
\* comes from neither
ExtendedBy(after, before, child) ==
    /\ DOMAIN after = DOMAIN before \cup DOMAIN child
    /\ \A k \in DOMAIN before : Covers(after[k], before[k])
    /\ \A k \in DOMAIN child : Covers(after[k], child[k])
    /\ \A k \in DOMAIN after :
           IF after[k] = <<>>
           THEN \/ k \in DOMAIN before /\ before[k] = <<>>
                \/ k \in DOMAIN child /\ child[k] = <<>>
           ELSE \A j \in 1..Len(after[k]) :
                    \/ k \in DOMAIN before /\ Covers(before[k], <<after[k][j]>>)
                    \/ k \in DOMAIN child /\ Covers(child[k], <<after[k][j]>>)

\* C21: the step that leaves a function-like node (the end of
\* visitBaseFunction, for a function, an arrow function, a method or the fourth
\* argument of an async wrapper) leaves the block-scope stack as
\* visitBaseFunction found it, the function-var set the one of the enclosing
\* function as visitBaseFunction found it, with no parameter or var of the child
\* added, and the required and optional maps those of the enclosing function
\* extended by the child's captures without its function-scoped names, no entry
\* of the enclosing function removed or narrowed.
C21_ScopeSaveRestore ==
    [][Walking("exit") =>
           LET entry == Top.saved[1]
           IN  /\ scopes' = entry.scopes
               /\ functionVars' = entry.functionVars
               /\ ExtendedBy(required', entry.required, Delete(required, functionVars))
               /\ ExtendedBy(optional', entry.optional, Delete(optional, functionVars))]_vars

\* the arrow function of NestedFunctionFrame was left: what is left to do is to
\* pop the two blocks and leave f; the block scope with `x` is back, p and y
\* are in no map and not in the function-var set, a.c() has joined the a.b of f
C21_Witness ==
    /\ funcString = NestedFunctionFrame
    /\ pc = "walk"
    /\ Len(stack) = 3
    /\ stack[1].op = "scopes.pop" /\ stack[2].op = "scopes.pop" /\ stack[3].op = "exit"
    /\ scopes = <<{}, {}, {"x"}>>
    /\ functionVars = {"f", "this", "arguments"}
    /\ optional = EmptyMap
    /\ required = [a |-> <<[name |-> "b", invoked |-> FALSE],
                           [name |-> "c", invoked |-> TRUE]>>,
                   w |-> <<>>]

-----------------------------------------------------------------------------
(* The normalized forms of a named function.                                *)

\* the shape parseFunctionCode finds in a text that is no arrow function
ShapeOf(s) ==
    IF \/ StartsWith(s, <<"function", " ", "get", " ">>)
       \/ StartsWith(s, <<"function", " ", "set", " ">>) THEN "accessor"
    ELSE IF StartsWith(s, <<"function">>) THEN "declaration"
    ELSE IF StartsWith(s, <<"class", " ">>) THEN "class"
    ELSE "method"

\* the text behind the words that make the shape
TailOf(s) ==
    CASE ShapeOf(s) = "accessor" -> Substr(s, 3)
      [] ShapeOf(s) = "declaration" -> Substr(s, 1)
      [] OTHER -> s

\* `function `, or `function* ` for a tail that starts with a star
PrefixOf(tail) ==
    IF StartsWith(TrimLeft(tail), <<"*">>)
    THEN <<"function", "*", " ">> ELSE <<"function", " ">>

\* the tail from its name on
Named(tail) ==
    IF StartsWith(TrimLeft(tail), <<"*">>)
    THEN TrimLeft(Substr(TrimLeft(tail), 1)) ELSE TrimLeft(tail)

\* the name part: what stands before the first "(" (<<>> when there is no "(")
NamePart(tail) == Substring(Named(tail), 0, IndexOf(Named(tail), "("))

\* s has sub in it
Contains(s, sub) ==
    \E i \in 1..(Len(s) - Len(sub) + 1) : SubSeq(s, i, i + Len(sub) - 1) = sub

\* /*name*/
CommentedOut(name) == <<"/*">> \o name \o <<"*/">>

\* the function expression has the name in the place of a function's name
EmbedsName(code, tail) == StartsWith(code, PrefixOf(tail) \o NamePart(tail) \o <<"(">>)

\* the function expression has nothing in the place of a function's name
LeavesNameOut(code, tail) ==
    /\ StartsWith(code, PrefixOf(tail) \o <<"(">>)
    /\ ~Contains(code, CommentedOut(NamePart(tail)))

\* parseFunctionCode took a text for a function, accessor or method with a name
NamedFunctionParsed ==
    /\ functionCode # <<>>
    /\ ~functionCode[1].isArrowFunction
    /\ ShapeOf(funcString) # "class"
    /\ NamePart(TailOf(funcString)) # <<>>

\* the declaration name is the name part for a function declaration and
\* absent for every other shape
DeclarationNameByShape ==
    (functionCode # <<>> /\ ~functionCode[1].isArrowFunction) =>
        functionCode[1].functionDeclarationName =
            IF ShapeOf(funcString) = "declaration" /\ NamePart(TailOf(funcString)) # <<>>
            THEN <<NamePart(TailOf(funcString))>> ELSE NoName

\* C22 as the specification states it: for a name part that is not empty,
\* funcExprWithoutName has the name commented out, funcExprWithName has the
\* name itself when it is a legal identifier and has it commented out
\* otherwise, and functionDeclarationName is the name part for a function
\* declaration and absent for an accessor, a class and a method.
C22_NamedFunctionNormalization ==
    /\ DeclarationNameByShape
    /\ NamedFunctionParsed =>
           LET tail == TailOf(funcString)
               code == functionCode[1]
           IN  /\ Contains(code.funcExprWithoutName, CommentedOut(NamePart(tail)))
               /\ IF isLegalFunctionName(NamePart(tail))
                  THEN EmbedsName(code.funcExprWithName[1], tail)
                  ELSE Contains(code.funcExprWithName[1], CommentedOut(NamePart(tail)))

\* C22, amended: the name is commented out only when the name part is a legal
\* member name; a name part that is none (a computed name, a name with a
\* blank behind it) is left out of both forms.
C22_LegalNameNormalization ==
    /\ DeclarationNameByShape
    /\ NamedFunctionParsed =>
           LET tail == TailOf(funcString)
               code == functionCode[1]
           IN  /\ IF isLegalMemberName(NamePart(tail))
                  THEN Contains(code.funcExprWithoutName, CommentedOut(NamePart(tail)))
                  ELSE LeavesNameOut(code.funcExprWithoutName, tail)
               /\ IF isLegalFunctionName(NamePart(tail))
                  THEN EmbedsName(code.funcExprWithName[1], tail)
                  ELSE IF isLegalMemberName(NamePart(tail))
                  THEN Contains(code.funcExprWithName[1], CommentedOut(NamePart(tail)))
                  ELSE LeavesNameOut(code.funcExprWithName[1], tail)

\* a method with a computed name was classified: the name is in neither form
C22_Witness ==
    /\ NamedFunctionParsed
    /\ ShapeOf(funcString) = "method"
    /\ NamePart(TailOf(funcString)) = <<"[", "a", "]">>
    /\ StartsWith(functionCode[1].funcExprWithoutName, <<"function", " ", "(">>)
    /\ functionCode[1].funcExprWithName[1] = functionCode[1].funcExprWithoutName

-----------------------------------------------------------------------------
(* `this` and the functions that are no arrow functions.                    *)

\* parseFunctionCode took the text for a function that is no arrow function
ClassifiedAsFunction == functionCode # <<>> /\ ~functionCode[1].isArrowFunction

\* when the input is classified as no arrow function and parseFunction
\* returns, the required map the walk ends with and the one returned have no
\* entry for `this` and the error is empty; the error about an arrow function
\* that captured `this` is returned only for an input classified as an arrow
\* function
NoThisCaptureWhenReturned ==
    /\ ClassifiedAsFunction =>
           /\ pc \in {"computeUsesNonLexicalThis", "return", "done"} =>
                  "this" \notin DOMAIN required
           /\ capturedVariables # <<>> =>
                  "this" \notin DOMAIN capturedVariables[1].required
           /\ pc = "done" =>
                  /\ error = ""
                  /\ result # <<>>
                  /\ "this" \notin DOMAIN result[1].capturedVariables.required
    /\ error = ArrowCapturedThis =>
           functionCode # <<>> /\ functionCode[1].isArrowFunction

\* C23: for every input that parseFunctionCode classifies as no arrow
\* function, parseFunction returns, with an empty error message and a required
\* map without an entry for `this`; the error about an arrow function that
\* captured `this` is returned only for an input classified as an arrow
\* function.
C23_NoThisCaptureOutsideArrows ==
    /\ NoThisCaptureWhenReturned
    /\ ClassifiedAsFunction => pc # "threw"

-----------------------------------------------------------------------------
(* The optional map.                                                        *)

\* every entry of the map is the capture-all marker
CaptureAll(m) == \A k \in DOMAIN m : m[k] = <<>>

\* C24: every entry of the optional map is the capture-all marker, all through
\* the walk (in the current map and in the maps saved by the functions being
\* visited) and in the result; so the optional entry that
\* computeCapturedVariableNames appends to the required entry of the same name
\* adds no property to it: the returned required entry is the walked one.
C24_OptionalIsCaptureAll ==
    /\ CaptureAll(optional)
    /\ \A i \in 1..Len(stack) :
           stack[i].op = "exit" => CaptureAll(stack[i].saved[1].optional)
    /\ capturedVariables # <<>> =>
           /\ CaptureAll(capturedVariables[1].optional)
           /\ \A k \in DOMAIN capturedVariables[1].required :
                  capturedVariables[1].required[k] = required[k]
    /\ result # <<>> =>
           /\ CaptureAll(result[1].capturedVariables.optional)
           /\ \A k \in DOMAIN result[1].capturedVariables.required :
                  result[1].capturedVariables.required[k] = required[k]

\* a name is the operand of typeof and the object of a property access: the
\* walk ended with both entries, and the returned required entry is the list
\* of properties it had before the optional entry was appended
C24_Witness ==
    /\ Returned
    /\ \E k \in DOMAIN optional \cap DOMAIN result[1].capturedVariables.required :
           /\ optional[k] = <<>>
           /\ required[k] # <<>>
           /\ result[1].capturedVariables.required[k] = required[k]

-----------------------------------------------------------------------------
(* The plugin host and its child process.                                   *)

\* NewPlugin returned an error after it had started the child
ErrorAfterStart == returned # <<>> /\ returned[1].err # "" /\ proc # "none"

\* C25: when NewPlugin returns an error after the child process was started (a
\* read error on the child's stdout, a port line that is no number, a failure
\* to create the gRPC connection), the child does not run any more; and a
\* Plugin is returned only after a numeric port line was read and the
\* connection was created.
C25_NoPluginLeftRunning ==
    /\ ErrorAfterStart => proc # "running"
    /\ (returned # <<>> /\ returned[1].plugin # <<>>) =>
           /\ AtoiOk(port)
           /\ conn # "none"
           /\ returned[1].err = ""

\* the same for the errors before grpc.Dial: the read error and the port line
\* that is no number
KilledBeforeDial ==
    /\ (ErrorAfterStart /\ returned[1].err # "dial") => proc # "running"
    /\ (returned # <<>> /\ returned[1].plugin # <<>>) =>
           /\ AtoiOk(port)
           /\ conn # "none"
           /\ returned[1].err = ""

=============================================================================
